---- MODULE Spec2Model ----
(***************************************************************************)
(* Outbound egress dispatcher of ak-proxy                                  *)
(* (src/transparent_proxy/outbound_dispatcher.py) together with its only   *)
(* caller, forward_request (src/transparent_proxy/proxy_server.py), and    *)
(* the sing-box proxy pool (src/monitor/proxy_pool.py), second half of the *)
(* module.  The two share no state; each specification moves one of them.  *)
(*                                                                         *)
(* The dispatcher runs on one asyncio event loop: code between two awaits  *)
(* is atomic.  Every action below is one such atomic stretch of code.      *)
(* A request's pick_*_exit call and the start of forward() are one stretch *)
(* in the source (forward_request has no await in between); the model      *)
(* shows the value pick returned in the intermediate position "picked",    *)
(* and what forward hands to its caller in the position "returned"; while  *)
(* a request is in one of the two, no other action is enabled.             *)
(*                                                                         *)
(* Time: time.time() is the integer clock `now`, in seconds.               *)
(* Python list index i is position i+1 of a TLA+ sequence.                 *)
(* Pure statistics (total, login_count, warn_429, exit_ip, _error_logs)    *)
(* are not state of the model: no decision of the code reads them.         *)
(***************************************************************************)
EXTENDS Integers, Sequences, FiniteSets, TLC

\* ---- bounds of the model ----
MaxTunnels == 2
MaxReqs == 2
\* requests of a burst (the specifications of the quota and of the balance)
BurstReqs == 3
TickStep == 30
MaxTime == 90
\* OutboundDispatcher.MAX_LOGIN_PER_MIN: a configurable quota (10 in the class,
\* LOGIN_RATE_PER_EXIT from config.py, set_max_login_per_min); scaled down.
MAX_LOGIN_PER_MIN == 2
\* set_rate_limit calls made by the administrator
MaxRateSets == 1
\* remove_exit calls made by the administrator
MaxRemoves == 2

\* ---- program constants ----
LOGIN_WINDOW == 60
RATE_WINDOW == 60
FREEZE_DURATION == 60
MIN_RATE_LIMIT == 5
\* wait_for_rate sleeps 0.05 s past the expiry of the oldest timestamp; on the
\* integer clock the sleeper is awake again one unit after the expiry.
SLEEP_MARGIN == 1
DirectId == 0

NoExit == 0 - 1
ExitIds == 0..MaxTunnels
\* 200 stands for every status _check_alert_status does not act on (503 is
\* only logged)
Statuses == {200, 403, 429}
RateLimits == {0, 1, 6}

VARIABLES
  exits,      \* OutboundDispatcher.exits: the list of Exit objects (their ids)
  ex,         \* the Exit objects: id -> fields of OutboundExit
  started,    \* OutboundDispatcher._started
  now,        \* time.time()
  req,        \* the forward_request coroutines: position and locals
  rate_lock,  \* per Exit: the request holding _rate_lock, 0 when free
  rate_waiters, \* per Exit: the FIFO of requests waiting for _rate_lock
  rate_sets,  \* the number of set_rate_limit calls made so far
  hist403,    \* history: per Exit, the times at which it received a 403
  cfg,        \* history: the last add_socks5 / remove_exit call and its result
  all_nodes,  \* ProxyPool.all_nodes: the catalog, a list of Node records
  slots,      \* ProxyPool.slots: the production ProxySlot objects
  _node_scores, \* ProxyPool._node_scores: key -> score record
  _ready_nodes, \* ProxyPool._ready_nodes: the hot-standby queue (catalog positions)
  node_index, \* ProxyPool.node_index: the round-robin cursor of _next_node
  pretest,    \* the _pretest_loop coroutine: position and locals of _fill_ready_pool
  last_start, \* history: the last finished ProxySlot.start call and its result
  pool_steps, \* the fills begun and the slot events seen so far (bounds of the model)
  direct_cfg, \* ProxyPoolConfig: prefer_direct, direct_rate_limit, direct_cooldown
  _direct_requests, \* proxy_pool._direct_requests: the times report_direct_success recorded
  _direct_cooldown_until, \* proxy_pool._direct_cooldown_until
  login,      \* the login handlers of server.py: the position of each
  direct_sent \* history: the times at which a request left on the preferred direct path

\* the direct-first routing of the monitor (module globals of proxy_pool.py)
gvars == <<direct_cfg, _direct_requests, _direct_cooldown_until, login, direct_sent>>

\* the state of the proxy pool (src/monitor/proxy_pool.py)
pvars == <<all_nodes, slots, _node_scores, _ready_nodes, node_index, pretest, last_start,
          pool_steps, gvars>>

vars == <<exits, ex, started, now, req, rate_lock, rate_waiters, rate_sets, hist403, cfg, pvars>>

Reqs == DOMAIN req

\* ---------------------------------------------------------------- helpers
Range(s) == {s[i] : i \in 1..Len(s)}
MaxOf(a, b) == IF a >= b THEN a ELSE b
SeqMin(s) == CHOOSE m \in Range(s) : \A t \in Range(s) : m <= t
RemoveFrom(s, v) == SelectSeq(s, LAMBDA y : y # v)

\* ---------------------------------------------------------------- OutboundExit
NewExit ==
  [healthy |-> TRUE, active |-> 0, rate_limit |-> 0, frozen_until |-> 0,
   inflight_logins |-> 0, login_timestamps |-> <<>>, req_timestamps |-> <<>>,
   errors |-> 0, warn_403 |-> 0]

is_direct(e) == e = DirectId

is_frozen(x, e) == now < x[e].frozen_until

\* [t for t in ts if t > now - window]
Prune(ts, window) == SelectSeq(ts, LAMBDA t : t > now - window)

freeze_for_403(x, e, duration) == [x EXCEPT ![e].frozen_until = now + duration]

\* count_recent_logins also stores the pruned list (PruneLogins)
count_recent_logins(x, e) ==
  Len(Prune(x[e].login_timestamps, LOGIN_WINDOW)) + x[e].inflight_logins

PruneLogins(x, e) ==
  [x EXCEPT ![e].login_timestamps = Prune(@, LOGIN_WINDOW)]

reserve_login(x, e) == [x EXCEPT ![e].inflight_logins = @ + 1]

confirm_login(x, e) ==
  [x EXCEPT ![e].inflight_logins = MaxOf(0, @ - 1),
            ![e].login_timestamps = Append(@, now)]

cancel_login(x, e) == [x EXCEPT ![e].inflight_logins = MaxOf(0, @ - 1)]

record_request(x, e) == [x EXCEPT ![e].req_timestamps = Append(@, now)]

record_error(x, e) == [x EXCEPT ![e].errors = @ + 1]

get_current_rpm(x, e) == Len(Prune(x[e].req_timestamps, RATE_WINDOW))

\* (a slip: the floor of 5 is missing)
auto_throttle_on_403_nofloor(x, e) ==
  IF x[e].rate_limit = 0
  THEN LET current_rpm == get_current_rpm(x, e)
           x1 == [x EXCEPT ![e].req_timestamps = Prune(@, RATE_WINDOW)]
       IN IF current_rpm > 5
          THEN [x1 EXCEPT ![e].rate_limit = (current_rpm * 9) \div 10]
          ELSE x1
  ELSE LET new_limit == (x[e].rate_limit * 9) \div 10
       IN IF new_limit < x[e].rate_limit
          THEN [x EXCEPT ![e].rate_limit = new_limit]
          ELSE x

\* int(v * 0.9) is floor(9 * v / 10) for the integers v of a request count
\* or a limit (the double 0.9 is above 9/10, the product is never rounded
\* below the integer)
auto_throttle_on_403(x, e) ==
  IF x[e].rate_limit = 0
  THEN LET current_rpm == get_current_rpm(x, e)
           x1 == [x EXCEPT ![e].req_timestamps = Prune(@, RATE_WINDOW)]
       IN IF current_rpm > 5
          THEN [x1 EXCEPT ![e].rate_limit =
                  MaxOf(MIN_RATE_LIMIT, (current_rpm * 9) \div 10)]
          ELSE x1
  ELSE LET new_limit == MaxOf(MIN_RATE_LIMIT, (x[e].rate_limit * 9) \div 10)
       IN IF new_limit < x[e].rate_limit
          THEN [x EXCEPT ![e].rate_limit = new_limit]
          ELSE x

\* ---------------------------------------------------------------- OutboundDispatcher
\* (a slip: self.exits[-1])
_safe_direct_last == exits[Len(exits)]

_safe_direct == exits[1]

\* (a slip: the first Exit of the pool, whatever its load)
MinActive_first(pool) == CHOOSE i \in pool : \A j \in pool : i <= j

\* min(pool, key=lambda i: self.exits[i].active): Python's min returns the
\* first index of the list that has the least key.
MinActive(pool) ==
  CHOOSE i \in pool : \A j \in pool :
    \/ ex[exits[i]].active < ex[exits[j]].active
    \/ (ex[exits[i]].active = ex[exits[j]].active /\ i <= j)

\* (a slip: the first healthy Exit, whatever its login count)
MinLogins_first(pool) == CHOOSE i \in pool : \A j \in pool : i <= j

\* min(healthy, key=lambda i: self.exits[i].count_recent_logins())
MinLogins(pool) ==
  CHOOSE i \in pool : \A j \in pool :
    \/ count_recent_logins(ex, exits[i]) < count_recent_logins(ex, exits[j])
    \/ (count_recent_logins(ex, exits[i]) = count_recent_logins(ex, exits[j]) /\ i <= j)

\* (a slip: the healthy flag is not tested)
_get_healthy_unfrozen ==
  {i \in 1..Len(exits) : ~is_frozen(ex, exits[i])}

\* indices (positions) of the healthy, unfrozen exits
_get_healthy ==
  {i \in 1..Len(exits) : ex[exits[i]].healthy /\ ~is_frozen(ex, exits[i])}

\* (a slip: no except clause, the exception leaves pick and no Exit is returned)
OnPickException_reraise == NoExit

\* except Exception: return self._safe_direct()
OnPickException == _safe_direct

\* (a slip: the unthrottled Exits are not preferred)
ApiBest_all(healthy) == MinActive(healthy)

\* pick_api_exit: least active among the unrestricted (else all) healthy exits
ApiBest(healthy) ==
  LET unrestricted == {i \in healthy : ex[exits[i]].rate_limit = 0}
      pool == IF unrestricted # {} THEN unrestricted ELSE healthy
  IN MinActive(pool)

\* exc: "none", or "early": an exception raised in the try block before any
\* state was changed.  The result: the Exit returned and the Exit objects
\* afterwards.
pick_api_exit(exc) ==
  LET healthy == _get_healthy
  IN IF exc # "none"
     THEN [ret |-> OnPickException, ex |-> ex]
     ELSE IF healthy = {}
     THEN [ret |-> _safe_direct, ex |-> ex]
     ELSE LET e == exits[ApiBest(healthy)]
          IN [ret |-> e, ex |-> record_request(ex, e)]

\* the Exit objects after count_recent_logins() ran on every healthy exit
LoginPruned(healthy) ==
  [e \in ExitIds |->
     IF \E i \in healthy : exits[i] = e
     THEN PruneLogins(ex, e)[e] ELSE ex[e]]

\* (a slip: <= admits an Exit that has already used its quota)
BelowQuota_le(n) == n <= MAX_LOGIN_PER_MIN

\* if ex.count_recent_logins() < self.MAX_LOGIN_PER_MIN: candidates.append(idx)
BelowQuota(n) == n < MAX_LOGIN_PER_MIN

LoginBest(healthy) ==
  LET candidates ==
        {i \in healthy : BelowQuota(count_recent_logins(ex, exits[i]))}
      unrestricted == {i \in candidates : ex[exits[i]].rate_limit = 0}
      pool == IF unrestricted # {} THEN unrestricted ELSE candidates
  IN IF candidates # {}
     THEN MinActive(pool)
     ELSE MinLogins(healthy)

\* exc: "none", "early" (as above) or "late": an exception raised after
\* ex.reserve_login() and before ex.record_request() took effect.
pick_login_exit(exc) ==
  LET healthy == _get_healthy
  IN IF exc = "early"
     THEN [ret |-> OnPickException, ex |-> ex]
     ELSE IF healthy = {}
     THEN [ret |-> _safe_direct, ex |-> ex]
     ELSE LET e == exits[LoginBest(healthy)]
              x1 == reserve_login(LoginPruned(healthy), e)
          IN IF exc = "late"
             THEN [ret |-> OnPickException, ex |-> x1]
             ELSE [ret |-> e, ex |-> record_request(x1, e)]

\* (a slip: the 403 is counted but the Exit is not frozen)
_check_alert_status_nofreeze(x, e, status_code) ==
  IF status_code \in {403, 429}
  THEN auto_throttle_on_403(
         IF status_code = 403 THEN [x EXCEPT ![e].warn_403 = @ + 1] ELSE x, e)
  ELSE x

_check_alert_status(x, e, status_code) ==
  IF status_code = 403
  THEN auto_throttle_on_403(
         freeze_for_403([x EXCEPT ![e].warn_403 = @ + 1], e, FREEZE_DURATION), e)
  ELSE IF status_code = 429
  THEN auto_throttle_on_403(x, e)
  ELSE x

\* ---------------------------------------------------------------- state
\* A forward_request coroutine.  pc: idle, picked, lockwait and sleep (inside
\* wait_for_rate), call (_do_request through exit), fallback (_do_request
\* through the direct Exit after exit failed), returned (forward has just
\* ended), done.  At returned: outcome is "resp" (a response is returned),
\* "raise" or "cancelled"; tried is the number of _do_request calls made, via
\* the Exit of the last one and status the status code it got (0: none).
\* passed is the time at which wait_for_rate of a throttled Exit returned to
\* forward, which then begins the call (NotPassed: it has not, or forward has
\* ended).
NotPassed == -1

IdleReq ==
  [pc |-> "idle", login |-> FALSE, exit |-> NoExit, exc |-> "none",
   wake |-> 0, outcome |-> "none", tried |-> 0, via |-> NoExit, status |-> 0,
   passed |-> NotPassed]

\* ---------------------------------------------------------------- ProxyPool state
\* ProxyPool.__init__ with the config value num_slots = PoolSlots
PoolSlots == 2
\* the largest catalog of the model
MaxNodes == 10
\* ProxyPool._pretest_interval: a test result is good for 300 s
_pretest_interval == 300
\* latency of a node that failed its test, and the default of a missing score
BAD_LATENCY == 9999
\* fail_count is capped: a test or a request fails only below the cap
MaxFailCount == 3
\* fills of the ready queue begun by _pretest_loop, where a specification counts them
MaxFills == 2
\* process exits, failed starts and rate rotations of the production slots
MaxSlotEvents == 2
\* requests sent through the pool by proxy_request
MaxPoolReqs == 3

\* num_slots = min(num_slots, len(nodes)) if nodes else 0
num_slots(nodes) == IF Len(nodes) < PoolSlots THEN Len(nodes) ELSE PoolSlots
_ready_target == PoolSlots

\* _node_scores.get(key, {}): an absent entry reads as not verified,
\* latency 9999, fail_count 0
NoScore ==
  [tested |-> FALSE, verified |-> FALSE, last_test |-> 0,
   latency |-> BAD_LATENCY, fail_count |-> 0]

\* ProxySlot.__init__: process = None, node = None (0); starting names the
\* caller suspended in run_in_executor(slot.start), "no" when there is none;
\* inflight counts the requests of proxy_request sent through the slot and
\* not yet answered; orphan says that a sing-box process the slot object has
\* let go of (self.process = None) is still alive and listens on the port;
\* second names a caller whose slot.start runs in another executor thread
\* while the start of `starting` is still running; blocked says that
\* time.time() < blocked_until (mark_blocked(30) of rotate_slot)
NewSlot == [process |-> FALSE, node |-> 0, starting |-> "no", listening |-> FALSE,
            inflight |-> 0, orphan |-> FALSE, second |-> "no", blocked |-> FALSE]

NoStart == [slot |-> 0, node |-> 0, env |-> "none", ret |-> "none"]

IdleFill == [pc |-> "off", to_test |-> <<>>, results |-> <<>>, needed |-> 0,
             filled |-> 0, tier3 |-> <<>>]

\* ProxyPool.__init__(nodes, ...)
\* login handlers that may run at once
LoginHandlers == 3
_DIRECT_WINDOW == 60
_DIRECT_RATE_LIMIT == 4
direct_cooldown == 60

\* the module globals of the direct path at import, under a configuration
\* with the given prefer_direct and direct_rate_limit
DirectGlobals(prefer, limit) ==
  /\ direct_cfg = [prefer_direct |-> prefer, direct_rate_limit |-> limit]
  /\ _direct_requests = <<>>
  /\ _direct_cooldown_until = 0
  /\ login = [h \in 1..LoginHandlers |-> "idle"]
  /\ direct_sent = <<>>

\* DEFAULT_CONFIG: prefer_direct False, direct_rate_limit 4
PoolInit(nodes) ==
  /\ DirectGlobals(FALSE, _DIRECT_RATE_LIMIT)
  /\ all_nodes = nodes
  /\ slots = [i \in 1..num_slots(nodes) |-> NewSlot]
  /\ _node_scores = [k \in 1..MaxNodes |-> NoScore]
  /\ _ready_nodes = <<>>
  /\ node_index = 0
  /\ pretest = IdleFill
  /\ last_start = NoStart
  /\ pool_steps = [fills |-> 0, events |-> 0, requests |-> 0]

\* no configuration call made yet; removes counts the remove_exit calls
NoCall == [op |-> "none", index |-> 0, ok |-> TRUE, removes |-> 0]

DispatcherInit(n) ==
  /\ exits = <<DirectId>>
  /\ ex = [e \in ExitIds |-> NewExit]
  /\ started = FALSE
  /\ now = 0
  /\ req = [r \in 1..n |-> IdleReq]
  /\ rate_lock = [e \in ExitIds |-> 0]
  /\ rate_waiters = [e \in ExitIds |-> <<>>]
  /\ rate_sets = 0
  /\ hist403 = [e \in ExitIds |-> <<>>]
  /\ cfg = NoCall

\* the dispatcher's process runs no proxy pool
InitWith(n) == DispatcherInit(n) /\ PoolInit(<<>>)

Init == InitWith(MaxReqs)

\* no request is between pick's return and the start of forward, or at the
\* return of forward
NoPick == \A r \in Reqs : req[r].pc \notin {"picked", "returned"}
Serving == started /\ NoPick

\* ---------------------------------------------------------------- configuration
\* a new OutboundExit object: the least id no Exit of the list has
FreshId(xs) == CHOOSE e \in ExitIds \ Range(xs) : \A f \in ExitIds \ Range(xs) : e <= f

\* add_socks5: self.exits.append(OutboundExit(name, proxy_url))
add_socks5(xs) == Append(xs, FreshId(xs))

\* configure_from_list: add_socks5 for each of the k items
RECURSIVE configure_from_list(_, _)
configure_from_list(xs, k) ==
  IF k = 0 THEN xs ELSE configure_from_list(add_socks5(xs), k - 1)

\* the Exit objects once the list has become xs: the new ones are fresh
WithNew(xs) ==
  [e \in ExitIds |-> IF e \in Range(xs) \ Range(exits) THEN NewExit ELSE ex[e]]

\* add_socks5 (configure_from_list runs at import, before the server starts)
AddSocks5 ==
  /\ ~started
  /\ Len(exits) <= MaxTunnels
  /\ exits' = add_socks5(exits)
  /\ ex' = WithNew(exits')
  /\ cfg' = [cfg EXCEPT !.op = "add", !.index = Len(exits), !.ok = TRUE]
  /\ UNCHANGED <<started, now, req, rate_lock, rate_waiters, rate_sets, hist403, pvars>>

\* dispatcher.configure_from_list(SOCKS5_EXITS), a list of k >= 1 tunnels
ConfigureFromList(k) ==
  /\ ~started
  /\ k >= 1
  /\ Len(exits) + k <= MaxTunnels + 1
  /\ exits' = configure_from_list(exits, k)
  /\ ex' = WithNew(exits')
  /\ cfg' = [cfg EXCEPT !.op = "add", !.index = Len(exits) + k - 1, !.ok = TRUE]
  /\ UNCHANGED <<started, now, req, rate_lock, rate_waiters, rate_sets, hist403, pvars>>

\* (a slip: index < 0, which lets the direct Exit #0 be removed)
remove_exit_refused_lt(index) == index < 0 \/ index >= Len(exits)

\* remove_exit: if index <= 0 or index >= len(self.exits): return False
remove_exit_refused(index) == index <= 0 \/ index >= Len(exits)

\* self.exits.pop(index)
Pop(xs, index) == SubSeq(xs, 1, index) \o SubSeq(xs, index + 2, Len(xs))

\* remove_exit(index)
RemoveExit(index) ==
  /\ NoPick
  /\ cfg.removes < MaxRemoves
  /\ exits' = IF remove_exit_refused(index) THEN exits ELSE Pop(exits, index)
  /\ cfg' = [op |-> "remove", index |-> index, ok |-> ~remove_exit_refused(index),
             removes |-> cfg.removes + 1]
  /\ UNCHANGED <<ex, started, now, req, rate_lock, rate_waiters, rate_sets, hist403, pvars>>

\* start()
Start ==
  /\ ~started
  /\ started' = TRUE
  /\ UNCHANGED <<exits, ex, now, req, rate_lock, rate_waiters, rate_sets, hist403, cfg, pvars>>

\* set_rate_limit(index, limit)
SetRateLimit(i, limit) ==
  /\ Serving
  /\ i \in 1..Len(exits)
  /\ rate_sets < MaxRateSets
  /\ rate_sets' = rate_sets + 1
  /\ ex' = [ex EXCEPT ![exits[i]].rate_limit = MaxOf(0, limit)]
  /\ UNCHANGED <<exits, started, now, req, rate_lock, rate_waiters, hist403, cfg, pvars>>

\* _check_single_exit(idx, ex) of the health check loop: tunnels only
\* (a slip: the loop skips the last Exit, not the first)
HealthProbe_first(i, ok) ==
  /\ Serving
  /\ i \in 2..Len(exits)
  /\ ex[exits[i - 1]].healthy # ok
  /\ ex' = [ex EXCEPT ![exits[i - 1]].healthy = ok]
  /\ UNCHANGED <<exits, started, now, req, rate_lock, rate_waiters, rate_sets, hist403, cfg, pvars>>

HealthProbe(i, ok) ==
  /\ Serving
  /\ i \in 2..Len(exits)
  /\ ex[exits[i]].healthy # ok
  /\ ex' = [ex EXCEPT ![exits[i]].healthy = ok]
  /\ UNCHANGED <<exits, started, now, req, rate_lock, rate_waiters, rate_sets, hist403, cfg, pvars>>

\* the clock
Tick ==
  /\ Serving
  /\ now + TickStep <= MaxTime
  /\ now' = now + TickStep
  /\ UNCHANGED <<exits, ex, started, req, rate_lock, rate_waiters, rate_sets, hist403, cfg, pvars>>

\* ---------------------------------------------------------------- forward_request
\* exit_obj = dispatcher.pick_login_exit() if is_login else dispatcher.pick_api_exit()
\* Requests are interchangeable: they are started in the order of their numbers.
Pick(r, is_login, exc) ==
  /\ Serving
  /\ req[r].pc = "idle"
  /\ \A q \in Reqs : q < r => req[q].pc # "idle"
  /\ exc = "late" => (is_login /\ _get_healthy # {})
  /\ LET p == IF is_login THEN pick_login_exit(exc) ELSE pick_api_exit(exc) IN
       /\ ex' = p.ex
       /\ req' = [req EXCEPT ![r] =
                    [@ EXCEPT !.pc = "picked", !.login = is_login,
                              !.exit = p.ret, !.exc = exc]]
  /\ UNCHANGED <<exits, started, now, rate_lock, rate_waiters, rate_sets, hist403, cfg, pvars>>

\* forward: exit_obj.active += 1, then the call is in flight
EnterCall(x, e) == [x EXCEPT ![e].active = @ + 1]

\* the coroutine's record when forward is left
Finished(q, outcome, via, status) ==
  [q EXCEPT !.pc = "returned", !.exc = "none", !.wake = 0, !.outcome = outcome,
            !.tried = IF via = NoExit THEN 0
                      ELSE IF q.pc = "fallback" THEN 2 ELSE 1,
            !.via = via, !.status = status, !.passed = NotPassed]

\* (a slip: <= lets one request too many through)
HasRoom_le(n, limit) == n <= limit

\* if len(self._req_timestamps) < self.rate_limit: return waited
HasRoom(n, limit) == n < limit

\* One pass of wait_for_rate's loop, run by r holding e's _rate_lock: either
\* the window has room (release the lock, forward goes on to the call) or r
\* sleeps, still holding the lock, until the oldest timestamp has expired.
RateLoop(r, e) ==
  LET ts == Prune(ex[e].req_timestamps, RATE_WINDOW)
      x1 == [ex EXCEPT ![e].req_timestamps = ts]
      wait_time == SeqMin(ts) + RATE_WINDOW - now + SLEEP_MARGIN
      go == /\ ex' = EnterCall(x1, e)
            /\ rate_lock' = [rate_lock EXCEPT ![e] = 0]
            /\ req' = [req EXCEPT ![r].pc = "call", ![r].exc = "none", ![r].wake = 0,
                                   ![r].passed = now]
  IN IF HasRoom(Len(ts), ex[e].rate_limit)
     THEN go
     ELSE IF ts = <<>>
     THEN \* oldest = min([]) raises ValueError: out of forward, lock released
          /\ ex' = x1
          /\ rate_lock' = [rate_lock EXCEPT ![e] = 0]
          /\ req' = [req EXCEPT ![r] = Finished(@, "raise", NoExit, 0)]
     ELSE IF wait_time > 0
     THEN /\ ex' = x1
          /\ rate_lock' = [rate_lock EXCEPT ![e] = r]
          /\ req' = [req EXCEPT ![r].pc = "sleep", ![r].exc = "none",
                       ![r].wake = now + wait_time]
     ELSE go

\* forward(): wait_for_rate up to its first suspension, or through to the call
ForwardStart(r) ==
  /\ req[r].pc = "picked"
  /\ LET e == req[r].exit IN
       IF ex[e].rate_limit <= 0
       THEN /\ ex' = EnterCall(ex, e)
            /\ req' = [req EXCEPT ![r].pc = "call", ![r].exc = "none"]
            /\ UNCHANGED <<rate_lock, rate_waiters>>
       ELSE IF rate_lock[e] = 0 /\ rate_waiters[e] = <<>>
       THEN /\ RateLoop(r, e)
            /\ UNCHANGED rate_waiters
       ELSE /\ req' = [req EXCEPT ![r].pc = "lockwait", ![r].exc = "none"]
            /\ rate_waiters' = [rate_waiters EXCEPT ![e] = Append(@, r)]
            /\ UNCHANGED <<ex, rate_lock>>
  /\ UNCHANGED <<exits, started, now, rate_sets, hist403, cfg, pvars>>

\* async with self._rate_lock: the first waiter gets the released lock
AcquireRateLock(r) ==
  /\ NoPick
  /\ req[r].pc = "lockwait"
  /\ LET e == req[r].exit IN
       /\ rate_lock[e] = 0
       /\ Head(rate_waiters[e]) = r
       /\ rate_waiters' = [rate_waiters EXCEPT ![e] = Tail(@)]
       /\ RateLoop(r, e)
  /\ UNCHANGED <<exits, started, now, rate_sets, hist403, cfg, pvars>>

\* await asyncio.sleep(wait_time) returns
WakeUp(r) ==
  /\ NoPick
  /\ req[r].pc = "sleep"
  /\ now >= req[r].wake
  /\ RateLoop(r, req[r].exit)
  /\ UNCHANGED <<exits, started, now, rate_waiters, rate_sets, hist403, cfg, pvars>>

\* the Exit the request in flight goes through
Target(r) == IF req[r].pc = "fallback" THEN _safe_direct ELSE req[r].exit

\* (a slip: the nested try has no finally)
LeaveCall_outer(x, r) == [x EXCEPT ![req[r].exit].active = @ - 1]

\* finally: exit_obj.active -= 1 (and direct.active -= 1 in the nested try)
LeaveCall(x, r) ==
  LET e == req[r].exit
      x1 == [x EXCEPT ![e].active = @ - 1]
  IN IF req[r].pc = "fallback"
     THEN [x1 EXCEPT ![_safe_direct].active = @ - 1]
     ELSE x1

\* (a slip: handling a 403 raises, which sends forward into its except branch)
AlertRaises_on403(status_code) == status_code = 403

\* _check_alert_status raises nothing (it is called inside forward's try block)
AlertRaises(status_code) == FALSE

\* (a slip: the is_direct test is missing)
RetryDirect_always(r) == req[r].pc = "call"

\* if not exit_obj.is_direct: the failed call is retried through direct
RetryDirect(r) == req[r].pc = "call" /\ ~is_direct(req[r].exit)

\* except Exception: record_error, then the retry through direct or raise
ExceptPath(r, x) ==
  LET t == Target(r)
      x1 == record_error(x, t)
  IN IF RetryDirect(r)
     THEN /\ ex' = EnterCall(x1, _safe_direct)
          /\ req' = [req EXCEPT ![r].pc = "fallback"]
     ELSE /\ ex' = LeaveCall(x1, r)
          /\ req' = [req EXCEPT ![r] = Finished(@, "raise", t, 0)]

\* _do_request returns a response: _check_alert_status, return resp
Response(r, status_code) ==
  /\ NoPick
  /\ req[r].pc \in {"call", "fallback"}
  /\ LET t == Target(r)
         x1 == _check_alert_status(ex, t, status_code)
     IN /\ IF AlertRaises(status_code)
           THEN ExceptPath(r, x1)
           ELSE /\ ex' = LeaveCall(x1, r)
                /\ req' = [req EXCEPT ![r] = Finished(@, "resp", t, status_code)]
        /\ hist403' = IF status_code = 403
                      THEN [hist403 EXCEPT ![t] = Append(@, now)]
                      ELSE hist403
  /\ UNCHANGED <<exits, started, now, rate_lock, rate_waiters, rate_sets, cfg, pvars>>

\* _do_request raises (connect error, timeout): except Exception
TransportError(r) ==
  /\ NoPick
  /\ req[r].pc \in {"call", "fallback"}
  /\ ExceptPath(r, ex)
  /\ UNCHANGED <<exits, started, now, rate_lock, rate_waiters, rate_sets, hist403, cfg, pvars>>

\* the request's task is cancelled at one of its awaits (CancelledError is
\* not an Exception: only the finally blocks and the lock's release run)
Cancelled(r) ==
  /\ NoPick
  /\ req[r].pc \in {"lockwait", "sleep", "call", "fallback"}
  /\ LET e == req[r].exit IN
       /\ ex' = IF req[r].pc \in {"call", "fallback"} THEN LeaveCall(ex, r) ELSE ex
       /\ rate_lock' = IF req[r].pc = "sleep"
                       THEN [rate_lock EXCEPT ![e] = 0] ELSE rate_lock
       /\ rate_waiters' = IF req[r].pc = "lockwait"
                          THEN [rate_waiters EXCEPT ![e] = RemoveFrom(@, r)]
                          ELSE rate_waiters
  /\ req' = [req EXCEPT ![r] = Finished(@, "cancelled", NoExit, 0)]
  /\ UNCHANGED <<exits, started, now, rate_sets, hist403, cfg, pvars>>

\* forward_request returns what forward returned or raised; the coroutine ends
Return(r) ==
  /\ req[r].pc = "returned"
  /\ req' = [req EXCEPT ![r] = [IdleReq EXCEPT !.pc = "done"]]
  /\ UNCHANGED <<exits, ex, started, now, rate_lock, rate_waiters, rate_sets, hist403, cfg, pvars>>

\* forward_request as it is called for with the two-phase scheme of
\* reserve_login / confirm_login / cancel_login: the caller confirms the
\* login on the Exit it was given when the response has arrived, and cancels
\* it when forward failed.  (No code of the repository makes these calls.)
ReturnTwoPhase(r) ==
  /\ req[r].pc = "returned"
  /\ ex' = IF ~req[r].login THEN ex
           ELSE IF req[r].outcome = "resp" THEN confirm_login(ex, req[r].exit)
           ELSE cancel_login(ex, req[r].exit)
  /\ req' = [req EXCEPT ![r] = [IdleReq EXCEPT !.pc = "done"]]
  /\ UNCHANGED <<exits, started, now, rate_lock, rate_waiters, rate_sets, hist403, cfg, pvars>>

\* ---------------------------------------------------------------- specifications
\* The dispatcher as the repository runs it.  Nothing in the repository calls
\* set_rate_limit and auto_throttle_on_403 needs more than 5 requests per
\* minute on one Exit, so rate_limit stays 0 here (SpecRate has the waits).
Next ==
  \/ AddSocks5
  \/ Start
  \/ Tick
  \/ \E i \in 2..(MaxTunnels + 1), ok \in BOOLEAN : HealthProbe(i, ok)
  \/ \E r \in Reqs, is_login \in BOOLEAN, exc \in {"none", "early", "late"} :
       Pick(r, is_login, exc)
  \/ \E r \in Reqs : ForwardStart(r)
  \/ \E r \in Reqs, status_code \in Statuses : Response(r, status_code)
  \/ \E r \in Reqs : TransportError(r)
  \/ \E r \in Reqs : Cancelled(r)
  \/ \E r \in Reqs : Return(r)

Spec == Init /\ [][Next]_vars

\* Generic requests through Exits throttled by set_rate_limit.
NextRate ==
  \/ AddSocks5
  \/ Start
  \/ Tick
  \/ \E i \in 2..(MaxTunnels + 1), ok \in BOOLEAN : HealthProbe(i, ok)
  \/ \E i \in 1..(MaxTunnels + 1), limit \in RateLimits : SetRateLimit(i, limit)
  \/ \E r \in Reqs : Pick(r, FALSE, "none")
  \/ \E r \in Reqs : ForwardStart(r)
  \/ \E r \in Reqs : AcquireRateLock(r)
  \/ \E r \in Reqs : WakeUp(r)
  \/ \E r \in Reqs, status_code \in {200, 429} : Response(r, status_code)
  \/ \E r \in Reqs : TransportError(r)
  \/ \E r \in Reqs : Cancelled(r)
  \/ \E r \in Reqs : Return(r)

SpecRate == Init /\ [][NextRate]_vars

\* The exit list under configuration calls, with generic requests in flight.
NextConfig ==
  \/ AddSocks5
  \/ \E k \in 1..MaxTunnels : ConfigureFromList(k)
  \/ \E index \in (0 - 1)..(MaxTunnels + 1) : RemoveExit(index)
  \/ Start
  \/ \E r \in Reqs : Pick(r, FALSE, "none")
  \/ \E r \in Reqs : ForwardStart(r)
  \/ \E r \in Reqs : Response(r, 200)
  \/ \E r \in Reqs : TransportError(r)
  \/ \E r \in Reqs : Return(r)

SpecConfig == Init /\ [][NextConfig]_vars

\* A burst of generic requests while every Exit stays healthy, unfrozen and
\* unthrottled: arrivals and completions in any order.
NextBalance ==
  \/ AddSocks5
  \/ Start
  \/ \E r \in Reqs : Pick(r, FALSE, "none")
  \/ \E r \in Reqs : ForwardStart(r)
  \/ \E r \in Reqs : Response(r, 200)
  \/ \E r \in Reqs : Return(r)

SpecBalance == InitWith(BurstReqs) /\ [][NextBalance]_vars

\* A burst of login requests whose caller follows the two-phase scheme.
NextTwoPhase ==
  \/ AddSocks5
  \/ Start
  \/ Tick
  \/ \E r \in Reqs : Pick(r, TRUE, "none")
  \/ \E r \in Reqs : ForwardStart(r)
  \/ \E r \in Reqs : Response(r, 200)
  \/ \E r \in Reqs : TransportError(r)
  \/ \E r \in Reqs : ReturnTwoPhase(r)

SpecTwoPhase == InitWith(BurstReqs) /\ [][NextTwoPhase]_vars

\* The selection rules on a dispatcher that has been serving for a while:
\* every tunnel is configured, each Exit carries the login reservations of
\* earlier requests (pick_login_exit reserves, nothing in the repository
\* confirms or cancels) and either no rate limit or the limit an earlier
\* throttling left; the timestamps of those requests have left the window.
PastLogins == {0, MAX_LOGIN_PER_MIN, MAX_LOGIN_PER_MIN + 1}
PastLimits == {0, 6}

InitPick ==
  /\ \E l \in [ExitIds -> PastLogins], rl \in [ExitIds -> PastLimits] :
       ex = [e \in ExitIds |->
               [NewExit EXCEPT !.inflight_logins = l[e], !.rate_limit = rl[e]]]
  /\ exits = [i \in 1..(MaxTunnels + 1) |-> i - 1]
  /\ started = TRUE
  /\ now = 0
  /\ req = [r \in 1..MaxReqs |-> IdleReq]
  /\ rate_lock = [e \in ExitIds |-> 0]
  /\ rate_waiters = [e \in ExitIds |-> <<>>]
  /\ rate_sets = 0
  /\ hist403 = [e \in ExitIds |-> <<>>]
  /\ cfg = NoCall
  /\ PoolInit(<<>>)

NextPick ==
  \/ \E i \in 2..(MaxTunnels + 1), ok \in BOOLEAN : HealthProbe(i, ok)
  \/ \E r \in Reqs, is_login \in BOOLEAN : Pick(r, is_login, "none")
  \/ \E r \in Reqs : ForwardStart(r)
  \/ \E r \in Reqs, status_code \in {200, 403} : Response(r, status_code)
  \/ \E r \in Reqs : Return(r)

SpecPick == InitPick /\ [][NextPick]_vars

\* Adaptive throttling by itself: one Exit with any limit up to MaxLimit (0:
\* none) and up to MaxRpm requests recorded at time 0 gets 403 and 429
\* responses while the clock advances.
MaxLimit == 12
MaxRpm == 8
MaxAlerts == 3

InitThrottle ==
  /\ \E limit \in 0..MaxLimit, k \in 0..MaxRpm :
       ex = [e \in ExitIds |->
               IF e = DirectId
               THEN [NewExit EXCEPT !.rate_limit = limit,
                                    !.req_timestamps = [i \in 1..k |-> 0]]
               ELSE NewExit]
  /\ exits = <<DirectId>>
  /\ started = TRUE
  /\ now = 0
  /\ req = <<>>
  /\ rate_lock = [e \in ExitIds |-> 0]
  /\ rate_waiters = [e \in ExitIds |-> <<>>]
  /\ rate_sets = 0
  /\ hist403 = [e \in ExitIds |-> <<>>]
  /\ cfg = NoCall
  /\ PoolInit(<<>>)

\* Generic requests through a direct Exit whose rate limit was set before the
\* first of them and is never set again: the callers of wait_for_rate queue on
\* the Exit's _rate_lock and sleep in turn.
InitQueue ==
  /\ \E limit \in RateLimits \ {0} :
       ex = [e \in ExitIds |->
               IF e = DirectId THEN [NewExit EXCEPT !.rate_limit = limit]
               ELSE NewExit]
  /\ exits = <<DirectId>>
  /\ started = TRUE
  /\ now = 0
  /\ req = [r \in 1..MaxReqs |-> IdleReq]
  /\ rate_lock = [e \in ExitIds |-> 0]
  /\ rate_waiters = [e \in ExitIds |-> <<>>]
  /\ rate_sets = 0
  /\ hist403 = [e \in ExitIds |-> <<>>]
  /\ cfg = NoCall
  /\ PoolInit(<<>>)

NextQueue ==
  \/ Tick
  \/ \E r \in Reqs : Pick(r, FALSE, "none")
  \/ \E r \in Reqs : ForwardStart(r)
  \/ \E r \in Reqs : AcquireRateLock(r)
  \/ \E r \in Reqs : WakeUp(r)
  \/ \E r \in Reqs : Response(r, 200)
  \/ \E r \in Reqs : Return(r)

SpecQueue == InitQueue /\ [][NextQueue]_vars

\* a response with an alert status code has come back through Exit e:
\* self._check_alert_status(exit_obj, resp.status_code, url)
Alert(e, status_code) ==
  /\ e \in Range(exits)
  /\ ex[e].warn_403 < MaxAlerts
  /\ ex' = _check_alert_status(ex, e, status_code)
  /\ UNCHANGED <<exits, started, now, req, rate_lock, rate_waiters, rate_sets, hist403,
                 cfg, pvars>>

NextThrottle ==
  \/ Tick
  \/ \E status_code \in {403, 429} : Alert(DirectId, status_code)

SpecThrottle == InitThrottle /\ [][NextThrottle]_vars

\* ---------------------------------------------------------------- properties
Picked(r) == req[r].pc = "picked"
Returned(r) == req[r].pc = "returned"
InList(e) == e \in Range(exits)

\* C1: pick_login_exit and pick_api_exit always hand back, without raising,
\* an Exit of the dispatcher's exit list; when the selection logic raised,
\* that Exit is the direct Exit.
C1_PickReturnsExit ==
  \A r \in Reqs : Picked(r) =>
    /\ InList(req[r].exit)
    /\ req[r].exc # "none" => req[r].exit = exits[1]

\* an exception in a login pick, after the reservation on a tunnel
C1_Witness ==
  \E r \in Reqs :
    /\ Picked(r) /\ req[r].exc = "late" /\ req[r].exit = exits[1]
    /\ \E e \in Range(exits) : e # exits[1] /\ ex[e].inflight_logins > 0

\* C2: when no Exit is both healthy and unfrozen, both picks return the
\* direct Exit (index 0).
C2_NoneEligibleGivesDirect ==
  \A r \in Reqs : (Picked(r) /\ _get_healthy = {}) => req[r].exit = exits[1]

\* tunnels configured, all unhealthy, the direct Exit frozen, and a pick made
C2_Witness ==
  \E r \in Reqs :
    /\ Picked(r) /\ req[r].exc = "none" /\ _get_healthy = {}
    /\ Len(exits) > 1 /\ is_frozen(ex, exits[1])

\* C3: no Exit has more than MAX_LOGIN_PER_MIN confirmed logins (entries of
\* its login timestamp window) within the trailing 60 seconds.
C3_ConfirmedWithinQuota ==
  \A e \in Range(exits) :
    Len(Prune(ex[e].login_timestamps, LOGIN_WINDOW)) <= MAX_LOGIN_PER_MIN

\* C4: every login reservation is released when its request completes:
\* whenever no request is outstanding, every in-flight login counter is 0.
C4_ReservationsReleased ==
  (\A r \in Reqs : req[r].pc \in {"idle", "done"}) =>
    \A e \in ExitIds : ex[e].inflight_logins = 0

\* the active-connection counts over the exit list
MaxActive == CHOOSE m \in {ex[e].active : e \in Range(exits)} :
               \A e \in Range(exits) : ex[e].active <= m
MinActiveCount == CHOOSE m \in {ex[e].active : e \in Range(exits)} :
                    \A e \in Range(exits) : m <= ex[e].active
Spread == MaxActive - MinActiveCount
AllGood ==
  \A e \in Range(exits) :
    ex[e].healthy /\ ~is_frozen(ex, e) /\ ex[e].rate_limit = 0

\* C5 as stated: while all Exits are healthy, unfrozen and unthrottled, the
\* largest and the smallest active count differ by at most 1.
C5_SpreadAtMostOne == AllGood => Spread <= 1

\* C5 as amended: while all Exits are healthy, unfrozen and unthrottled, the
\* arrival of a generic request (pick_api_exit, then forward's increment)
\* never raises the difference above the larger of 1 and its value before.
C5_ArrivalKeepsBalance ==
  [][\A r \in Reqs :
       (Picked(r) /\ ~req[r].login /\ req[r].exc = "none" /\ AllGood
          /\ req'[r].pc = "call")
       => Spread' <= MaxOf(1, Spread)]_vars

\* three requests spread over three Exits
C5_Witness ==
  /\ Len(exits) = 3
  /\ \A e \in Range(exits) : ex[e].active = 1
  /\ \A r \in Reqs : req[r].pc = "call"

\* C6: after a 403 at time t an Exit is returned by no pick during
\* [t, t+60), and from t+60 on it is eligible again if healthy.
C6_ExcludedThenEligible ==
  \A e \in Range(exits) : \A k \in 1..Len(hist403[e]) :
    LET t == hist403[e][k] IN
      /\ now < t + FREEZE_DURATION => \A r \in Reqs : Picked(r) => req[r].exit # e
      /\ (now >= t + FREEZE_DURATION /\ ex[e].healthy) => ~is_frozen(ex, e)

\* the forward calls that have incremented e's active and not yet decremented it
InFlight(e) ==
  Cardinality({r \in Reqs : req[r].pc \in {"call", "fallback"} /\ req[r].exit = e})
  + (IF e = exits[1]
     THEN Cardinality({r \in Reqs : req[r].pc = "fallback"}) ELSE 0)

\* C7: active is never negative and equals the number of forward calls
\* executing through the Exit (the nested direct attempt counts on direct).
C7_ActiveCountsCalls ==
  \A e \in ExitIds : ex[e].active >= 0 /\ ex[e].active = InFlight(e)

\* a direct retry was in progress beside a call on direct, and has ended
C7_Witness ==
  \E r \in Reqs :
    /\ Returned(r) /\ req[r].tried = 2
    /\ ex[exits[1]].active = 1 /\ ex[req[r].exit].active = 0

\* C8: a transport error on a tunnel is recorded on it and the call retried
\* once through direct; forward raises only when the direct attempt fails
\* too; a transport error on the direct Exit is raised with no retry.
C8_RetryOnceThroughDirect ==
  [][\A r \in Reqs :
       LET e == req[r].exit
           d == exits[1]
       IN /\ (req[r].pc = "call" /\ ~is_direct(e) /\ req'[r].pc # "call") =>
               \/ /\ req'[r].pc = "fallback"
                  /\ ex'[e].errors = ex[e].errors + 1
                  /\ ex'[d].active = ex[d].active + 1
               \/ /\ req'[r].pc = "returned"
                  /\ req'[r].outcome \in {"resp", "cancelled"}
          /\ (req[r].pc = "fallback" /\ req'[r].pc # "fallback") =>
               /\ req'[r].pc = "returned"
               /\ req'[r].outcome = "raise" =>
                    (req'[r].via = d /\ ex'[d].errors = ex[d].errors + 1)
          /\ (req[r].pc = "call" /\ is_direct(e) /\ req'[r].pc # "call") =>
               /\ req'[r].pc = "returned"
               /\ req'[r].outcome = "raise" => ex'[e].errors = ex[e].errors + 1
          /\ req'[r].pc = "fallback" => req[r].pc \in {"call", "fallback"}
     ]_vars

\* the tunnel failed, then the direct attempt failed: forward raises
C8_Witness ==
  \E r \in Reqs :
    /\ Returned(r) /\ req[r].outcome = "raise" /\ req[r].tried = 2
    /\ ~is_direct(req[r].exit) /\ req[r].via = exits[1]
    /\ ex[req[r].exit].errors = 1 /\ ex[exits[1]].errors = 1

\* the step in which request r, in its call through its Exit, gets a 403
Gets403(r) ==
  /\ req[r].pc = "call"
  /\ req'[r].pc # "call"
  /\ Len(hist403'[req[r].exit]) > Len(hist403[req[r].exit])

C10_403CountsAndFreezes ==
  \A e \in ExitIds :
    /\ ex[e].warn_403 = Len(hist403[e])
    /\ \A k \in 1..Len(hist403[e]) :
         now < hist403[e][k] + FREEZE_DURATION => is_frozen(ex, e)

\* a second 403 on an Exit, half a minute after the first
C10_Witness ==
  \E e \in ExitIds :
    /\ ex[e].warn_403 = 2
    /\ hist403[e][1] < hist403[e][2]
    /\ now > hist403[e][2]
    /\ is_frozen(ex, e)

\* C11: after any add_socks5, configure_from_list and remove_exit calls the
\* direct Exit is at index 0 of the exit list; remove_exit with index 0 or an
\* index out of range returns False and leaves the list as it was.
C11_DirectStaysFirst ==
  [][/\ Len(exits') >= 1
     /\ exits'[1] = DirectId
     /\ cfg'.removes # cfg.removes =>
          IF cfg'.index <= 0 \/ cfg'.index >= Len(exits)
          THEN ~cfg'.ok /\ exits' = exits
          ELSE cfg'.ok]_vars

\* remove_exit(0) was refused while tunnels were configured and in use
C11_Witness ==
  /\ cfg.op = "remove" /\ cfg.index = 0 /\ ~cfg.ok
  /\ Len(exits) > 1
  /\ \E r \in Reqs : req[r].pc = "call" /\ ~is_direct(req[r].exit)

\* C12: no sequence of picks, forwards (the direct retry included) and
\* responses puts the direct Exit into the frozen state.
C12_DirectNeverFrozen == ~is_frozen(ex, exits[1])

\* C13: forward on an Exit with rate_limit L > 0 begins the call only when
\* the Exit's trailing-60s request count is below L; and the wait holds up
\* only its own request: a request picked for another Exit that has room (or
\* no limit) goes on to its call at once, whoever waits elsewhere.
C13_WaitBelowLimitOthersGoOn ==
  [][\A r \in Reqs :
       LET e == req[r].exit IN
         /\ (req[r].pc \in {"picked", "lockwait", "sleep"} /\ req'[r].pc = "call"
               /\ ex[e].rate_limit > 0)
            => get_current_rpm(ex, e) < ex[e].rate_limit
         /\ (Picked(r) /\ req'[r].pc # "picked"
               /\ (\A q \in Reqs : req[q].pc \in {"lockwait", "sleep"} => req[q].exit # e)
               /\ (ex[e].rate_limit <= 0 \/ get_current_rpm(ex, e) < ex[e].rate_limit))
            => req'[r].pc = "call"]_vars

\* a request sleeps in wait_for_rate on a throttled Exit while the call of a
\* request picked for another Exit is in flight
C13_Witness ==
  \E r, q \in Reqs :
    /\ req[r].pc = "sleep" /\ ex[req[r].exit].rate_limit > 0 /\ now < req[r].wake
    /\ req[q].pc = "call" /\ req[q].exit # req[r].exit /\ r < q

\* the login picks made so far
NPicks == Cardinality({r \in Reqs : req[r].pc # "idle"})

\* C14: with K healthy, unfrozen Exits of quota Q each, a burst of at most
\* K*Q login picks leaves every Exit with at most Q logins in its trailing
\* window: at every instant of the burst counting the reservations, hence
\* also once all responses have confirmed.
C14_BurstWithinQuota ==
  NPicks <= Len(exits) * MAX_LOGIN_PER_MIN =>
    \A e \in Range(exits) : count_recent_logins(ex, e) <= MAX_LOGIN_PER_MIN

\* a burst has ended, all its responses are confirmed: one Exit has used its
\* whole quota and the burst went on to another
C14_Witness ==
  /\ NPicks = BurstReqs /\ NPicks <= Len(exits) * MAX_LOGIN_PER_MIN
  /\ \A r \in Reqs : req[r].pc = "done"
  /\ \E e, f \in Range(exits) :
       /\ e # f
       /\ Len(Prune(ex[e].login_timestamps, LOGIN_WINDOW)) = MAX_LOGIN_PER_MIN
       /\ Len(Prune(ex[f].login_timestamps, LOGIN_WINDOW)) >= 1
       /\ ex[e].inflight_logins = 0 /\ ex[f].inflight_logins = 0

\* ======================================================================
\* The SOCKS5 proxy pool (src/monitor/proxy_pool.py).  ProxyPool runs on one
\* asyncio event loop; ProxySlot.start runs in an executor thread and the
\* coroutine that called it is suspended until it returns.  A Node is its
\* position in the catalog all_nodes; its record holds the key host:port,
\* whether _build_config can read it (wellformed) and, for the
\* specification of the fill cycles, whether a test of it passes (good).
\* ======================================================================
Cat == [i \in 1..Len(all_nodes) |-> i]
_node_key(n) == all_nodes[n].key
SlotIds == DOMAIN slots

\* ProxySlot.alive: process is not None and process.poll() is None
alive(sl, i) == sl[i].process

\* the keys of the nodes of the live slots (in_use of _next_node, the second
\* half of occupied of _fill_ready_pool)
in_use(sl) == {_node_key(sl[i].node) : i \in {j \in DOMAIN sl : alive(sl, j) /\ sl[j].node # 0}}

_get_node_tier(sc, n) ==
  LET score == sc[_node_key(n)] IN
  IF ~score.tested THEN 2
  ELSE IF now - score.last_test > _pretest_interval THEN 2
  ELSE IF score.verified THEN 1 ELSE 3

\* list.sort(key=...) is stable: x goes behind every entry whose key is <= its own
InsertBy(srt, x, f) ==
  LET pos == Cardinality({i \in 1..Len(srt) : f[srt[i]] <= f[x]}) IN
  SubSeq(srt, 1, pos) \o <<x>> \o SubSeq(srt, pos + 1, Len(srt))

RECURSIVE SortBy(_, _)
SortBy(xs, f) ==
  IF xs = <<>> THEN <<>>
  ELSE InsertBy(SortBy(SubSeq(xs, 1, Len(xs) - 1), f), xs[Len(xs)], f)

LatencyOf(sc) == [n \in 1..Len(all_nodes) |-> sc[_node_key(n)].latency]
FailCountOf(sc) == [n \in 1..Len(all_nodes) |-> sc[_node_key(n)].fail_count]

_sort_ready_pool(ready, sc) == SortBy(ready, LatencyOf(sc))

\* keeps the entries whose score is verified and younger than the interval
_cleanup_ready_pool(ready, sc) ==
  SelectSeq(ready, LAMBDA n :
    LET score == sc[_node_key(n)] IN
    score.tested /\ score.verified /\ now - score.last_test < _pretest_interval)

\* all_nodes[node_index % len(all_nodes)]
RoundRobin(idx) == (idx % Len(all_nodes)) + 1
\* node_index += 1; the cursor is only read modulo len(all_nodes) and is kept so
NextIndex(idx) == (idx + 1) % Len(all_nodes)

\* (a slip: the tiers are not consulted, the cursor decides)
_next_node_robin(sl, sc, ready, idx, prefer_verified) ==
  LET used == in_use(sl)
      free == {i \in 1..Len(ready) : _node_key(ready[i]) \notin used}
  IN
  IF free # {}
  THEN LET i == CHOOSE j \in free : \A m \in free : j <= m IN
       [node |-> ready[i],
        ready |-> SubSeq(ready, i + 1, Len(ready)) \o SubSeq(ready, 1, i - 1),
        index |-> idx]
  ELSE [node |-> RoundRobin(idx), ready |-> ready, index |-> NextIndex(idx)]

\* _next_node: the node returned, the queue and the cursor it leaves
_next_node(sl, sc, ready, idx, prefer_verified) ==
  LET used == in_use(sl)
      free == {i \in 1..Len(ready) : _node_key(ready[i]) \notin used}
      rest == SelectSeq(Cat, LAMBDA n : _node_key(n) \notin used)
      tier1 == SelectSeq(rest, LAMBDA n : _get_node_tier(sc, n) = 1)
      tier2 == SelectSeq(rest, LAMBDA n : _get_node_tier(sc, n) = 2)
      tier3 == SelectSeq(rest, LAMBDA n : _get_node_tier(sc, n) = 3)
      candidates == IF tier1 # <<>> THEN SortBy(tier1, LatencyOf(sc))
                    ELSE IF tier2 # <<>> THEN tier2 ELSE tier3
      robin == [node |-> RoundRobin(idx), ready |-> ready, index |-> NextIndex(idx)]
  IN
  IF free # {}
  THEN LET i == CHOOSE j \in free : \A m \in free : j <= m IN
       [node |-> ready[i],
        ready |-> SubSeq(ready, i + 1, Len(ready)) \o SubSeq(ready, 1, i - 1),
        index |-> idx]
  ELSE IF ~prefer_verified \/ (\A k \in DOMAIN sc : ~sc[k].tested) THEN robin
  ELSE IF candidates = <<>> THEN robin
  ELSE [node |-> candidates[1], ready |-> ready, index |-> idx]

\* ---------------------------------------------------------------- ProxySlot.start
\* what the machine does to one start call
StartEnvs == {"ok", "not_listening", "port_busy", "no_binary", "exits"}

\* ProxySlot.start(node): the value returned ("raise" for an exception that
\* leaves start), whether the slot has a live process afterwards, and
\* whether that process accepts connections on the slot's port
ProxySlot_start(n, env) ==
  IF ~all_nodes[n].wellformed
  THEN [ret |-> "raise", process |-> FALSE, listening |-> FALSE]
  ELSE IF env = "port_busy"
  THEN [ret |-> "False", process |-> FALSE, listening |-> FALSE]
  ELSE IF env = "no_binary"
  THEN [ret |-> "False", process |-> FALSE, listening |-> FALSE]
  ELSE IF env = "exits"
  THEN [ret |-> "False", process |-> FALSE, listening |-> FALSE]
  ELSE [ret |-> "True", process |-> TRUE, listening |-> env = "ok"]

\* ---------------------------------------------------------------- pool actions
\* the state of the dispatcher but the clock
dvars == <<exits, ex, started, req, rate_lock, rate_waiters, rate_sets, hist403, cfg, gvars>>

MinOf(a, b) == IF a <= b THEN a ELSE b
Take(xs, k) == SubSeq(xs, 1, MinOf(k, Len(xs)))

\* latencies a passing probe measures (ms)
Latencies == {10, 20}

\* the score written for a failed test, probe or request
FailScore(sc, k) ==
  [sc EXCEPT ![k] = [tested |-> TRUE, verified |-> FALSE, last_test |-> now,
                     latency |-> BAD_LATENCY,
                     fail_count |-> MinOf(sc[k].fail_count + 1, MaxFailCount)]]

PassScore(sc, k, lat) ==
  [sc EXCEPT ![k] = [tested |-> TRUE, verified |-> TRUE, last_test |-> now,
                     latency |-> lat, fail_count |-> 0]]

\* the beginning of ProxySlot.start(node): stop() and self.node = node; the
\* requests in flight through the stopped process end with a connection
\* error, which changes no score
BeginStart(sl, i, n, who) ==
  [sl EXCEPT ![i].process = FALSE, ![i].node = n, ![i].starting = who,
             ![i].listening = FALSE, ![i].inflight = 0]

\* _start_slot of ProxyPool.start(): up to three attempts with round-robin
\* nodes (_next_node(prefer_verified=False) on an empty queue); ok tells
\* whether the machine lets the slot's process start.  An exception leaving
\* slot.start ends the attempts.
RECURSIVE _start_slot(_, _, _)
_start_slot(idx, attempt, ok) ==
  LET n == RoundRobin(idx)
      r == ProxySlot_start(n, IF ok THEN "ok" ELSE "exits")
  IN
  IF r.ret = "False" /\ attempt < 3
  THEN _start_slot(NextIndex(idx), attempt + 1, ok)
  ELSE [alive |-> r.process, node |-> n, index |-> NextIndex(idx)]

\* ProxyPool.start(): every slot is started, one after the other
PoolStart(ok) ==
  /\ pretest.pc = "off"
  /\ all_nodes # <<>>
  /\ LET RECURSIVE before(_)
         before(i) == IF i = 1 THEN 0 ELSE _start_slot(before(i - 1), 1, ok[i - 1]).index
         st(i) == _start_slot(before(i), 1, ok[i])
     IN
     /\ slots' = [i \in SlotIds |->
                    [NewSlot EXCEPT !.process = st(i).alive, !.node = st(i).node,
                                    !.listening = st(i).alive]]
     /\ node_index' = st(Cardinality(SlotIds)).index
  /\ pretest' = [pretest EXCEPT !.pc = "boot"]
  /\ UNCHANGED <<all_nodes, _node_scores, _ready_nodes, last_start, now, pool_steps, dvars>>

\* _pretest_loop after its first sleep: the nodes of the live slots are verified
PretestBoot ==
  /\ pretest.pc = "boot"
  /\ _node_scores' = [k \in DOMAIN _node_scores |->
                        IF k \in in_use(slots)
                        THEN [tested |-> TRUE, verified |-> TRUE, last_test |-> now,
                              latency |-> 0, fail_count |-> 0]
                        ELSE _node_scores[k]]
  /\ pretest' = [pretest EXCEPT !.pc = "top"]
  /\ UNCHANGED <<all_nodes, slots, _ready_nodes, node_index, last_start, now, pool_steps, dvars>>

\* the loop of _pretest_loop is at its wait, no fill in progress
Waiting == [IdleFill EXCEPT !.pc = "wait"]

\* (a slip: tier3 is not sorted)
nodes_to_retry_unsorted(tier3, sc, still_need) == Take(tier3, still_need * 2)

\* tier3[:still_need * 2] after tier3.sort(key=fail_count)
nodes_to_retry(tier3, sc, still_need) == Take(SortBy(tier3, FailCountOf(sc)), still_need * 2)

\* _pretest_loop reads the shortage and _fill_ready_pool runs to its first
\* await: occupied, the tiers, the T1 entries; a fill that has nothing to
\* test runs to its end (_test_nodes_parallel of an empty list does not await)
FillBegin(counted) ==
  /\ pretest.pc = "top"
  /\ counted => pool_steps.fills < MaxFills
  /\ pool_steps' = IF counted THEN [pool_steps EXCEPT !.fills = @ + 1] ELSE pool_steps
  /\ LET shortage == _ready_target - Len(_ready_nodes)
         occupied == {_node_key(n) : n \in Range(_ready_nodes)} \cup in_use(slots)
         rest == SelectSeq(Cat, LAMBDA n : _node_key(n) \notin occupied)
         tier1 == SortBy(SelectSeq(rest, LAMBDA n : _get_node_tier(_node_scores, n) = 1),
                         LatencyOf(_node_scores))
         tier2 == SelectSeq(rest, LAMBDA n : _get_node_tier(_node_scores, n) = 2)
         tier3 == SelectSeq(rest, LAMBDA n : _get_node_tier(_node_scores, n) = 3)
         got == Take(tier1, shortage)
         still_need == shortage - Len(got)
         nodes_to_test == Take(tier2, still_need * 3)
         retry == nodes_to_retry(tier3, _node_scores, still_need)
     IN
     IF shortage <= 0
     THEN pretest' = Waiting /\ UNCHANGED _ready_nodes
     ELSE IF still_need <= 0
     THEN /\ _ready_nodes' = _sort_ready_pool(_ready_nodes \o got, _node_scores)
          /\ pretest' = Waiting
     ELSE IF nodes_to_test # <<>>
     THEN /\ _ready_nodes' = _ready_nodes \o got
          /\ pretest' = [pc |-> "t2", to_test |-> nodes_to_test, results |-> <<>>,
                         needed |-> shortage, filled |-> Len(got), tier3 |-> tier3]
     ELSE IF retry # <<>>
     THEN /\ _ready_nodes' = _ready_nodes \o got
          /\ pretest' = [pc |-> "t3", to_test |-> retry, results |-> <<>>,
                         needed |-> shortage, filled |-> Len(got), tier3 |-> <<>>]
     ELSE /\ _ready_nodes' = _sort_ready_pool(_ready_nodes \o got, _node_scores)
          /\ pretest' = Waiting
  /\ UNCHANGED <<all_nodes, slots, _node_scores, node_index, last_start, now, dvars>>

\* _test_single_node finishes for the next node of the batch: the test slot
\* is started with the node and, if start returned True, probed (the probe
\* passes with latency lat, or fails: lat = BAD_LATENCY).  An exception
\* leaving start is collected by gather as a failed result and no score is
\* written.  results keeps the nodes whose result is True.
TestNode(env, lat) ==
  /\ pretest.pc \in {"t2", "t3"}
  /\ pretest.to_test # <<>>
  /\ lat # BAD_LATENCY => env = "ok"
  /\ LET n == Head(pretest.to_test)
         k == _node_key(n)
         r == ProxySlot_start(n, env)
         ok == r.ret = "True" /\ lat # BAD_LATENCY
     IN
     /\ _node_scores' = IF r.ret = "raise" THEN _node_scores
                        ELSE IF ok THEN PassScore(_node_scores, k, lat)
                        ELSE FailScore(_node_scores, k)
     /\ pretest' = [pretest EXCEPT !.to_test = Tail(@),
                                   !.results = IF ok THEN Append(@, n) ELSE @]
  /\ UNCHANGED <<all_nodes, slots, _ready_nodes, node_index, last_start, now, pool_steps, dvars>>

\* (a slip: every passing node is appended, without the test filled < needed)
FillAfterTests_all ==
  /\ pretest.pc \in {"t2", "t3"}
  /\ pretest.to_test = <<>>
  /\ LET got == pretest.results
         filled == pretest.filled + Len(got)
         retry == nodes_to_retry(pretest.tier3, _node_scores, pretest.needed - filled)
     IN
     IF pretest.pc = "t2" /\ filled < pretest.needed /\ retry # <<>>
     THEN /\ _ready_nodes' = _ready_nodes \o got
          /\ pretest' = [pc |-> "t3", to_test |-> retry, results |-> <<>>,
                         needed |-> pretest.needed, filled |-> filled, tier3 |-> <<>>]
     ELSE /\ _ready_nodes' = _sort_ready_pool(_ready_nodes \o got, _node_scores)
          /\ pretest' = Waiting
  /\ UNCHANGED <<all_nodes, slots, _node_scores, node_index, last_start, now, pool_steps, dvars>>

\* _fill_ready_pool after the await of _test_nodes_parallel: the passing nodes
\* are appended while filled < needed; after T2 a fill still short goes on
\* to retest tier3; a fill that ends sorts the queue
FillAfterTests ==
  /\ pretest.pc \in {"t2", "t3"}
  /\ pretest.to_test = <<>>
  /\ LET got == Take(pretest.results, pretest.needed - pretest.filled)
         filled == pretest.filled + Len(got)
         retry == nodes_to_retry(pretest.tier3, _node_scores, pretest.needed - filled)
     IN
     IF pretest.pc = "t2" /\ filled < pretest.needed /\ retry # <<>>
     THEN /\ _ready_nodes' = _ready_nodes \o got
          /\ pretest' = [pc |-> "t3", to_test |-> retry, results |-> <<>>,
                         needed |-> pretest.needed, filled |-> filled, tier3 |-> <<>>]
     ELSE /\ _ready_nodes' = _sort_ready_pool(_ready_nodes \o got, _node_scores)
          /\ pretest' = Waiting
  /\ UNCHANGED <<all_nodes, slots, _node_scores, node_index, last_start, now, pool_steps, dvars>>

\* the wait of _pretest_loop ends (the event is set, or 30 s are over) and
\* _cleanup_ready_pool runs
PretestWake ==
  /\ pretest.pc = "wait"
  /\ _ready_nodes' = _cleanup_ready_pool(_ready_nodes, _node_scores)
  /\ pretest' = [pretest EXCEPT !.pc = "top"]
  /\ UNCHANGED <<all_nodes, slots, _node_scores, node_index, last_start, now, pool_steps, dvars>>

\* ---------------------------------------------------------------- slots
PoolTickStep == 200
PoolMaxTime == 400

\* self._running: set by ProxyPool.start, cleared by ProxyPool.stop
Running == pretest.pc \notin {"off", "stopped"}

SlotEvent ==
  /\ pool_steps.events < MaxSlotEvents
  /\ pool_steps' = [pool_steps EXCEPT !.events = @ + 1]

\* node = self._next_node() followed by run_in_executor(slot.start, node): the
\* caller is suspended while start runs
SelectAndStart(i, sc, who) ==
  LET nn == _next_node(slots, sc, _ready_nodes, node_index, TRUE) IN
  /\ slots' = BeginStart(slots, i, nn.node, who)
  /\ _ready_nodes' = nn.ready
  /\ node_index' = nn.index

\* no caller named who is suspended in a start (_monitor_loop is one
\* coroutine; get_proxy holds self.lock across its start)
Free(who) == \A j \in SlotIds : slots[j].starting # who

\* self.lock is held by a get_proxy call suspended in its slot.start
lock_held == ~Free("get_proxy")

\* _monitor_loop, case 1: the slot's process is dead
MonitorRestart(i) ==
  /\ Running /\ Free("monitor")
  /\ ~alive(slots, i) /\ slots[i].starting = "no"
  /\ SelectAndStart(i, _node_scores, "monitor")
  /\ UNCHANGED <<all_nodes, _node_scores, pretest, last_start, now, pool_steps, dvars>>

\* _monitor_loop, case 3: the slot has served rate_limit requests in the
\* window (the request traffic is an input of the model)
MonitorRotate(i) ==
  /\ Running /\ Free("monitor")
  /\ alive(slots, i) /\ slots[i].starting = "no"
  /\ SlotEvent
  /\ SelectAndStart(i, _node_scores, "monitor")
  /\ UNCHANGED <<all_nodes, _node_scores, pretest, last_start, now, dvars>>

\* get_proxy finds no usable slot and restarts a dead one
GetProxyRestart(i) ==
  /\ Running /\ Free("get_proxy")
  /\ \A j \in SlotIds : ~alive(slots, j)
  /\ slots[i].starting = "no"
  /\ SelectAndStart(i, _node_scores, "get_proxy")
  /\ UNCHANGED <<all_nodes, _node_scores, pretest, last_start, now, pool_steps, dvars>>

\* rotate_slot after its await of slot.start: slot.blocked_until = 0, which an
\* exception leaving start skips; the other callers of start leave
\* blocked_until alone
unblocked(s, ret) == IF s.starting = "rotate" /\ ret # "raise" THEN FALSE ELSE s.blocked

\* ProxySlot.start returns (or raises) in its executor thread; the call is
\* written to the history last_start when watch is set
StartReturns(i, env, watch) ==
  /\ slots[i].starting # "no"
  /\ slots[i].orphan => env = "port_busy"
  /\ LET r == ProxySlot_start(slots[i].node, env) IN
     /\ slots' = [slots EXCEPT ![i].starting = "no", ![i].process = r.process,
                                ![i].listening = r.listening,
                                ![i].blocked = unblocked(slots[i], r.ret)]
     /\ last_start' = IF watch
                      THEN [slot |-> i, node |-> slots[i].node, env |-> env, ret |-> r.ret]
                      ELSE last_start
     /\ IF r.process THEN UNCHANGED pool_steps ELSE SlotEvent
  /\ UNCHANGED <<all_nodes, _node_scores, _ready_nodes, node_index, pretest, now, dvars>>

\* the sing-box process of a slot exits (its requests in flight end with a
\* connection error, which changes no score)
SlotDies(i) ==
  /\ alive(slots, i) /\ slots[i].starting = "no"
  /\ SlotEvent
  /\ slots' = [slots EXCEPT ![i].process = FALSE, ![i].listening = FALSE,
                             ![i].inflight = 0]
  /\ UNCHANGED <<all_nodes, _node_scores, _ready_nodes, node_index, pretest, last_start, now, dvars>>

PoolTick ==
  /\ Running
  /\ now + PoolTickStep <= PoolMaxTime
  /\ now' = now + PoolTickStep
  /\ UNCHANGED <<pvars, dvars>>

\* ---------------------------------------------------------------- production traffic
\* proxy_request: get_proxy hands out a usable slot (the round-robin cursor
\* and the rate window decide which; any usable slot can be the one); the
\* body of get_proxy runs under self.lock
GetProxy(i) ==
  /\ Running /\ ~lock_held
  /\ alive(slots, i) /\ slots[i].starting = "no" /\ ~slots[i].blocked
  /\ pool_steps.requests < MaxPoolReqs
  /\ pool_steps' = [pool_steps EXCEPT !.requests = @ + 1]
  /\ slots' = [slots EXCEPT ![i].inflight = @ + 1]
  /\ UNCHANGED <<all_nodes, _node_scores, _ready_nodes, node_index, pretest, last_start, now, dvars>>

\* old_latency * 0.7 if old_latency else 0, on integer milliseconds
Ema(lat) == (lat * 7) \div 10

\* ProxyPool.record_result(slot, success, error): the score of the Node the
\* slot holds now
record_result(sc, n, res) ==
  IF n = 0 THEN sc
  ELSE IF res = "ok"
  THEN PassScore(sc, _node_key(n),
                 IF sc[_node_key(n)].tested THEN Ema(sc[_node_key(n)].latency) ELSE 0)
  ELSE IF res \in {"403", "Timeout"} THEN FailScore(sc, _node_key(n))
  ELSE sc

\* the answers of the model: a status below 400, a 403, a timeout (a
\* connection error changes no score and is left out)
Results == {"ok", "403", "Timeout"}

\* the answer to a request sent through slot i arrives: record_result, and
\* for a 403 rotate_slot(slot, "blocked") up to its await of slot.start
\* (it fails the old Node's score once more)
RecordResult(i, res) ==
  /\ slots[i].inflight > 0
  /\ res = "403" => slots[i].starting = "no"
  /\ LET n == slots[i].node
         sc1 == record_result(_node_scores, n, res)
         sc2 == IF res = "403" /\ n # 0 THEN FailScore(sc1, _node_key(n)) ELSE sc1
         nn == _next_node(slots, sc2, _ready_nodes, node_index, TRUE)
         done == [slots EXCEPT ![i].inflight = @ - 1]
     IN
     /\ _node_scores' = sc2
     /\ IF res = "403"
        THEN /\ slots' = [BeginStart(done, i, nn.node, "rotate") EXCEPT ![i].blocked = TRUE]
             /\ _ready_nodes' = nn.ready
             /\ node_index' = nn.index
        ELSE /\ slots' = done
             /\ UNCHANGED <<_ready_nodes, node_index>>
  /\ UNCHANGED <<all_nodes, pretest, last_start, now, pool_steps, dvars>>

\* ---------------------------------------------------------------- catalogs
Node(k, w, g) == [key |-> k, wellformed |-> w, good |-> g]

\* three nodes, each its own server
DistinctCatalog == [i \in 1..3 |-> Node(i, TRUE, TRUE)]
\* the subscription lists one server twice (two names, one host:port)
TwinCatalog == [i \in 1..3 |-> Node(IF i = 3 THEN 2 ELSE i, TRUE, TRUE)]
\* one cached node lacks a field its protocol's outbound needs
MalformedCatalog == [i \in 1..3 |-> Node(i, i # 3, TRUE)]

PoolCatalogs == {DistinctCatalog, TwinCatalog}

InitPool == DispatcherInit(0) /\ \E c \in PoolCatalogs : PoolInit(c)

NextPool ==
  \/ \E ok \in [SlotIds -> BOOLEAN] : PoolStart(ok)
  \/ PretestBoot
  \/ FillBegin(TRUE)
  \/ \E env \in {"ok", "exits"}, lat \in {10, BAD_LATENCY} : TestNode(env, lat)
  \/ FillAfterTests
  \/ PretestWake
  \/ \E i \in SlotIds : MonitorRestart(i)
  \/ \E i \in SlotIds : MonitorRotate(i)
  \/ \E i \in SlotIds : GetProxyRestart(i)
  \/ \E i \in SlotIds, env \in {"ok", "exits"} : StartReturns(i, env, FALSE)
  \/ \E i \in SlotIds : SlotDies(i)

SpecPool == InitPool /\ [][NextPool]_vars

\* ---------------------------------------------------------------- the fill cycles alone
\* The replenishment loop with nothing popped meanwhile: the slots stay as
\* ProxyPool.start left them, a test passes iff its Node is good.
\* two live slots' nodes, then six untestable nodes, then two good nodes:
\* still_need * 3 = 6 nodes are tested per fill
StarvedCatalog == [i \in 1..10 |-> Node(i, i \notin 3..8, TRUE)]
\* nodes that fail their test stand before the good ones
FailingFirstCatalog == [i \in 1..6 |-> Node(i, TRUE, i \notin 3..4)]

FillCatalogs == {DistinctCatalog, FailingFirstCatalog, StarvedCatalog}

InitFill == DispatcherInit(0) /\ \E c \in FillCatalogs : PoolInit(c)

\* the probe of a test passes with latency lat iff the Node is good
TestAsGood(lat) ==
  /\ pretest.to_test # <<>>
  /\ lat = BAD_LATENCY <=> ~all_nodes[Head(pretest.to_test)].good
  /\ TestNode("ok", lat)

NextFill ==
  \/ \E ok \in [SlotIds -> BOOLEAN] : PoolStart(ok)
  \/ PretestBoot
  \/ FillBegin(FALSE)
  \/ \E lat \in Latencies \cup {BAD_LATENCY} : TestAsGood(lat)
  \/ FillAfterTests
  \/ PretestWake

\* _pretest_loop is a task of the event loop and each of its awaits ends
\* (a test within its timeouts, the wait after 30 s)
SpecFill == InitFill /\ [][NextFill]_vars /\ WF_vars(NextFill)

\* the Nodes that pass a test
Passing == {n \in 1..Len(all_nodes) : all_nodes[n].wellformed /\ all_nodes[n].good}
\* the Nodes bound to live slots
Bound == {slots[i].node : i \in {j \in SlotIds : alive(slots, j) /\ slots[j].node # 0}}

\* ---------------------------------------------------------------- the starts of the slots
\* The production slots with every outcome of ProxySlot.start and the clock;
\* the replenishment loop stays at the top of its loop.
StartCatalogs == {DistinctCatalog, MalformedCatalog}

InitStart == DispatcherInit(0) /\ \E c \in StartCatalogs : PoolInit(c)

NextStart ==
  \/ \E ok \in [SlotIds -> BOOLEAN] : PoolStart(ok)
  \/ PretestBoot
  \/ \E i \in SlotIds : MonitorRestart(i)
  \/ \E i \in SlotIds : MonitorRotate(i)
  \/ \E i \in SlotIds : GetProxyRestart(i)
  \/ \E i \in SlotIds, env \in StartEnvs : StartReturns(i, env, TRUE)
  \/ \E i \in SlotIds : SlotDies(i)
  \/ PoolTick

SpecStart == InitStart /\ [][NextStart]_vars

\* the call of ProxySlot.start recorded in c met one of the failures: port
\* occupied, binary missing, process gone within the startup wait, Node malformed
StartFailure(c) ==
  \/ c.env \in {"port_busy", "no_binary", "exits"}
  \/ ~all_nodes[c.node].wellformed

\* ---------------------------------------------------------------- the tiers of a fill
\* The replenishment loop over a catalog whose scores are drawn: what earlier
\* tests and requests can have left for a Node.  No production slot is alive.
TierNodes == 5
TierCatalog == [i \in 1..TierNodes |-> Node(i, TRUE, TRUE)]

PastScores(t) ==
  {NoScore,
   [tested |-> TRUE, verified |-> TRUE, last_test |-> t, latency |-> 10, fail_count |-> 0],
   [tested |-> TRUE, verified |-> TRUE, last_test |-> t, latency |-> 20, fail_count |-> 0],
   [tested |-> TRUE, verified |-> TRUE, last_test |-> 0, latency |-> 10, fail_count |-> 0],
   [tested |-> TRUE, verified |-> FALSE, last_test |-> t, latency |-> BAD_LATENCY,
    fail_count |-> 1],
   [tested |-> TRUE, verified |-> FALSE, last_test |-> t, latency |-> BAD_LATENCY,
    fail_count |-> 2]}

\* the pool has been running for PoolMaxTime seconds: a score written at 0
\* is older than _pretest_interval, one written now is fresh
InitTiers ==
  /\ exits = <<DirectId>>
  /\ ex = [e \in ExitIds |-> NewExit]
  /\ started = FALSE
  /\ now = PoolMaxTime
  /\ req = <<>>
  /\ rate_lock = [e \in ExitIds |-> 0]
  /\ rate_waiters = [e \in ExitIds |-> <<>>]
  /\ rate_sets = 0
  /\ hist403 = [e \in ExitIds |-> <<>>]
  /\ cfg = NoCall
  /\ DirectGlobals(FALSE, _DIRECT_RATE_LIMIT)
  /\ all_nodes = TierCatalog
  /\ slots = [i \in 1..num_slots(TierCatalog) |-> [NewSlot EXCEPT !.node = i]]
  /\ \E past \in [1..TierNodes -> PastScores(PoolMaxTime)] :
       _node_scores = [k \in 1..MaxNodes |->
                         IF k \in 1..TierNodes THEN past[k] ELSE NoScore]
  /\ _ready_nodes = <<>>
  /\ node_index = 0
  /\ pretest = [IdleFill EXCEPT !.pc = "top"]
  /\ last_start = NoStart
  /\ pool_steps = [fills |-> 0, events |-> 0, requests |-> 0]

NextTiers ==
  \/ FillBegin(TRUE)
  \/ \E lat \in {10, BAD_LATENCY} : TestNode("ok", lat)
  \/ FillAfterTests
  \/ PretestWake

SpecTiers == InitTiers /\ [][NextTiers]_vars

\* ---------------------------------------------------------------- the ageing of the scores
\* The replenishment loop with its tests; the production slots stay as
\* ProxyPool.start left them and the clock advances while the loop waits
\* (a fill with its tests takes seconds, the waits add up to minutes).
InitAge == DispatcherInit(0) /\ \E c \in {DistinctCatalog, FailingFirstCatalog} : PoolInit(c)

WaitTick == pretest.pc = "wait" /\ PoolTick

NextAge ==
  \/ \E ok \in [SlotIds -> BOOLEAN] : PoolStart(ok)
  \/ PretestBoot
  \/ FillBegin(TRUE)
  \/ \E lat \in Latencies \cup {BAD_LATENCY} : TestAsGood(lat)
  \/ FillAfterTests
  \/ PretestWake
  \/ WaitTick

SpecAge == InitAge /\ [][NextAge]_vars

\* ---------------------------------------------------------------- the expiry of queue entries
\* The replenishment loop, the clock and the monitor's restarts of dead slots,
\* which pop the ready queue.
NextExpiry ==
  \/ NextAge
  \/ \E i \in SlotIds : MonitorRestart(i)
  \/ \E i \in SlotIds, env \in {"ok", "exits"} : StartReturns(i, env, FALSE)
  \/ \E i \in SlotIds : SlotDies(i)

InitExpiry == DispatcherInit(0) /\ PoolInit(DistinctCatalog)

SpecExpiry == InitExpiry /\ [][NextExpiry]_vars

\* ---------------------------------------------------------------- two starts of one slot
\* get_proxy finds no usable slot and takes the first slot that is not alive.
\* Slot i is not alive because the start the monitor called for it is still
\* in its executor thread, between stop() and Popen: get_proxy calls
\* _next_node() and slot.start for the same slot in a second thread.
GetProxyOverlap(i) ==
  /\ Running
  /\ \A j \in SlotIds : slots[j].starting # "get_proxy" /\ slots[j].second = "no"
  /\ \A j \in SlotIds : ~alive(slots, j)
  /\ \A j \in SlotIds : j >= i
  /\ slots[i].starting = "monitor"
  /\ LET nn == _next_node(slots, _node_scores, _ready_nodes, node_index, TRUE) IN
       /\ slots' = [slots EXCEPT ![i].second = "get_proxy", ![i].node = nn.node]
       /\ _ready_nodes' = nn.ready
       /\ node_index' = nn.index
  /\ UNCHANGED <<all_nodes, _node_scores, pretest, last_start, now, pool_steps, dvars>>

\* the second start returns: the two threads have raced through stop(), the
\* port check and Popen, and the slot is left with a process or without one
SecondReturns(i, env) ==
  /\ slots[i].second # "no"
  /\ LET r == ProxySlot_start(slots[i].node, env) IN
       slots' = [slots EXCEPT ![i].second = "no", ![i].process = r.process,
                              ![i].listening = r.listening]
  /\ UNCHANGED <<all_nodes, _node_scores, _ready_nodes, node_index, pretest, last_start,
                 now, pool_steps, dvars>>

InitOverlap == DispatcherInit(0) /\ PoolInit(DistinctCatalog)

NextOverlap ==
  \/ \E ok \in [SlotIds -> BOOLEAN] : PoolStart(ok)
  \/ PretestBoot
  \/ \E i \in SlotIds : MonitorRestart(i)
  \/ \E i \in SlotIds : GetProxyOverlap(i)
  \/ \E i \in SlotIds, env \in {"ok", "exits"} : StartReturns(i, env, FALSE)
  \/ \E i \in SlotIds, env \in {"ok", "port_busy", "exits"} : SecondReturns(i, env)
  \/ \E i \in SlotIds : SlotDies(i)

SpecOverlap == InitOverlap /\ [][NextOverlap]_vars

\* ---------------------------------------------------------------- the slots get_proxy hands out
\* the 30 s of mark_blocked are over
BlockExpires(i) ==
  /\ slots[i].blocked /\ slots[i].starting = "no"
  /\ slots' = [slots EXCEPT ![i].blocked = FALSE]
  /\ UNCHANGED <<all_nodes, _node_scores, _ready_nodes, node_index, pretest, last_start,
                 now, pool_steps, dvars>>

InitHandout == DispatcherInit(0) /\ \E c \in StartCatalogs : PoolInit(c)

NextHandout ==
  \/ \E ok \in [SlotIds -> BOOLEAN] : PoolStart(ok)
  \/ PretestBoot
  \/ \E i \in SlotIds : GetProxy(i)
  \/ \E i \in SlotIds, res \in {"ok", "403"} : RecordResult(i, res)
  \/ \E i \in SlotIds : GetProxyRestart(i)
  \/ \E i \in SlotIds, env \in {"ok", "exits"} : StartReturns(i, env, FALSE)
  \/ \E i \in SlotIds : SlotDies(i)
  \/ \E i \in SlotIds : BlockExpires(i)

SpecHandout == InitHandout /\ [][NextHandout]_vars

\* ---------------------------------------------------------------- the direct-first routing of logins
\* direct sends after which the model begins no further login
MaxLogins == 4
DirectTickStep == 30
DirectMaxTime == 120
\* the values of direct_rate_limit the model configures
DirectLimits == {1, 2}

\* while _direct_requests and _direct_requests[0] < now - _DIRECT_WINDOW: popleft()
RECURSIVE popleft_expired(_, _)
popleft_expired(q, t) ==
  IF q # <<>> /\ Head(q) < t - _DIRECT_WINDOW THEN popleft_expired(Tail(q), t) ELSE q

\* should_use_direct at time t: the value returned and the deque it leaves
should_use_direct(c, until, q, t) ==
  IF ~c.prefer_direct THEN [ret |-> FALSE, q |-> q]
  ELSE IF t < until THEN [ret |-> FALSE, q |-> q]
  ELSE LET left == popleft_expired(q, t)
       IN [ret |-> ~(Len(left) >= c.direct_rate_limit), q |-> left]

\* a login handler runs from its entry to its first await: should_use_direct,
\* then either the POST on the direct path or proxy_request
LoginBegin(h) ==
  /\ login[h] = "idle"
  /\ Len(direct_sent) < MaxLogins
  /\ LET r == should_use_direct(direct_cfg, _direct_cooldown_until, _direct_requests, now)
     IN /\ _direct_requests' = r.q
        /\ login' = [login EXCEPT ![h] = IF r.ret THEN "direct" ELSE "proxy"]
        /\ direct_sent' = IF r.ret THEN Append(direct_sent, now) ELSE direct_sent
  /\ UNCHANGED <<exits, ex, started, now, req, rate_lock, rate_waiters, rate_sets, hist403,
                 cfg, all_nodes, slots, _node_scores, _ready_nodes, node_index, pretest,
                 last_start, pool_steps, direct_cfg, _direct_cooldown_until>>

\* the direct POST of handler h is answered: a 403 calls report_direct_blocked
\* and the handler goes on to proxy_request, any other status calls
\* report_direct_success and the handler ends
DirectResponse(h, status) ==
  /\ login[h] = "direct"
  /\ IF status = 403
     THEN /\ _direct_cooldown_until' = now + direct_cooldown
          /\ login' = [login EXCEPT ![h] = "proxy"]
          /\ UNCHANGED _direct_requests
     ELSE /\ _direct_requests' = Append(_direct_requests, now)
          /\ login' = [login EXCEPT ![h] = "idle"]
          /\ UNCHANGED _direct_cooldown_until
  /\ UNCHANGED <<exits, ex, started, now, req, rate_lock, rate_waiters, rate_sets, hist403,
                 cfg, all_nodes, slots, _node_scores, _ready_nodes, node_index, pretest,
                 last_start, pool_steps, direct_cfg, direct_sent>>

\* proxy_request returns to handler h: with a response the handler ends, with
\* None it posts once more without the pool (the fallback, which reads and
\* writes none of the direct path's counters)
ProxyReturns(h, got) ==
  /\ login[h] = "proxy"
  /\ login' = [login EXCEPT ![h] = IF got THEN "idle" ELSE "fallback"]
  /\ UNCHANGED <<exits, ex, started, now, req, rate_lock, rate_waiters, rate_sets, hist403,
                 cfg, all_nodes, slots, _node_scores, _ready_nodes, node_index, pretest,
                 last_start, pool_steps, direct_cfg, _direct_requests,
                 _direct_cooldown_until, direct_sent>>

\* the fallback POST of handler h is answered
FallbackResponse(h) ==
  /\ login[h] = "fallback"
  /\ login' = [login EXCEPT ![h] = "idle"]
  /\ UNCHANGED <<exits, ex, started, now, req, rate_lock, rate_waiters, rate_sets, hist403,
                 cfg, all_nodes, slots, _node_scores, _ready_nodes, node_index, pretest,
                 last_start, pool_steps, direct_cfg, _direct_requests,
                 _direct_cooldown_until, direct_sent>>

\* time passes
DirectTick ==
  /\ now < DirectMaxTime
  /\ now' = now + DirectTickStep
  /\ UNCHANGED <<exits, ex, started, req, rate_lock, rate_waiters, rate_sets, hist403,
                 cfg, pvars>>

\* the monitor with prefer_direct enabled in its configuration
InitDirect ==
  /\ DispatcherInit(0)
  /\ all_nodes = <<>>
  /\ slots = <<>>
  /\ _node_scores = [k \in 1..MaxNodes |-> NoScore]
  /\ _ready_nodes = <<>>
  /\ node_index = 0
  /\ pretest = IdleFill
  /\ last_start = NoStart
  /\ pool_steps = [fills |-> 0, events |-> 0, requests |-> 0]
  /\ \E l \in DirectLimits : DirectGlobals(TRUE, l)

NextDirect ==
  \/ \E h \in 1..LoginHandlers : LoginBegin(h)
  \/ \E h \in 1..LoginHandlers, status \in {200, 403} : DirectResponse(h, status)
  \/ \E h \in 1..LoginHandlers, got \in BOOLEAN : ProxyReturns(h, got)
  \/ \E h \in 1..LoginHandlers : FallbackResponse(h)
  \/ DirectTick

SpecDirect == InitDirect /\ [][NextDirect]_vars

\* ---------------------------------------------------------------- the stop of a slot
\* what the process does when ProxySlot.stop terminates and then kills it:
\* it is gone within the waits, or both process.wait(timeout=2) time out
StopOutcomes == {"exits", "survives"}

\* ProxySlot.stop() on the slot record s: after terminate / kill and the two
\* waits self.process = None whatever happened; _wait_port_free(timeout=3)
\* polls the port for 3 s and its result is dropped
ProxySlot_stop(s, out) ==
  [s EXCEPT !.process = FALSE, !.listening = FALSE, !.inflight = 0,
            !.orphan = s.orphan \/ (s.process /\ out = "survives")]

\* _monitor_loop, case 3, with the outcome of the stop() that opens
\* ProxySlot.start
MonitorRotateStop(i, out) ==
  /\ Running /\ Free("monitor")
  /\ alive(slots, i) /\ slots[i].starting = "no"
  /\ SlotEvent
  /\ LET nn == _next_node(slots, _node_scores, _ready_nodes, node_index, TRUE)
         stopped == [slots EXCEPT ![i] = ProxySlot_stop(slots[i], out)]
     IN
     /\ slots' = [stopped EXCEPT ![i].node = nn.node, ![i].starting = "monitor"]
     /\ _ready_nodes' = nn.ready
     /\ node_index' = nn.index
  /\ UNCHANGED <<all_nodes, _node_scores, pretest, last_start, now, dvars>>

\* the process that outlived stop() exits at last
OrphanExits(i) ==
  /\ slots[i].orphan
  /\ slots' = [slots EXCEPT ![i].orphan = FALSE]
  /\ UNCHANGED <<all_nodes, _node_scores, _ready_nodes, node_index, pretest, last_start,
                 now, pool_steps, dvars>>

InitStop == DispatcherInit(0) /\ PoolInit(DistinctCatalog)

NextStop ==
  \/ \E ok \in [SlotIds -> BOOLEAN] : PoolStart(ok)
  \/ PretestBoot
  \/ \E i \in SlotIds : MonitorRestart(i)
  \/ \E i \in SlotIds, out \in StopOutcomes : MonitorRotateStop(i, out)
  \/ \E i \in SlotIds, env \in {"ok", "port_busy", "exits"} : StartReturns(i, env, TRUE)
  \/ \E i \in SlotIds : SlotDies(i)
  \/ \E i \in SlotIds : OrphanExits(i)

SpecStop == InitStop /\ [][NextStop]_vars

\* ---------------------------------------------------------------- the shutdown of the pool
\* ProxyPool.stop(): _running = False, the two loops are cancelled and
\* awaited, slot.stop() on every slot, pkill of the sing-box processes.  A
\* slot.start that runs in a worker thread is not awaited: the thread goes on
\* and returns later.
PoolStop ==
  /\ Running
  /\ pretest' = [IdleFill EXCEPT !.pc = "stopped"]
  /\ slots' = [i \in SlotIds |-> [ProxySlot_stop(slots[i], "exits") EXCEPT
                                     !.starting = slots[i].starting]]
  /\ UNCHANGED <<all_nodes, _node_scores, _ready_nodes, node_index, last_start, now,
                 pool_steps, dvars>>

InitShutdown == DispatcherInit(0) /\ PoolInit(DistinctCatalog)

NextShutdown ==
  \/ \E ok \in [SlotIds -> BOOLEAN] : PoolStart(ok)
  \/ PretestBoot
  \/ \E i \in SlotIds : MonitorRestart(i)
  \/ \E i \in SlotIds : MonitorRotate(i)
  \/ \E i \in SlotIds, env \in {"ok", "exits"} : StartReturns(i, env, FALSE)
  \/ \E i \in SlotIds : SlotDies(i)
  \/ PoolStop

SpecShutdown == InitShutdown /\ [][NextShutdown]_vars

\* ---------------------------------------------------------------- the lock of get_proxy
\* proxy_request, second attempt: the request sent through slot j ends with
\* httpx.TimeoutException, record_result(slot, False, "Timeout"), and the next
\* turn of the loop calls get_proxy(exclude = {j}); no slot outside exclude is
\* usable, so get_proxy starts the first dead one (slot i) inside
\* `async with self.lock`
RetryStart(j, i) ==
  /\ Running /\ ~lock_held
  /\ slots[j].inflight > 0
  /\ i # j
  /\ \A k \in SlotIds \ {j} : ~alive(slots, k)
  /\ \A k \in SlotIds \ {j} : k >= i
  /\ slots[i].starting = "no"
  /\ LET sc == record_result(_node_scores, slots[j].node, "Timeout")
         done == [slots EXCEPT ![j].inflight = @ - 1]
         nn == _next_node(done, sc, _ready_nodes, node_index, TRUE)
     IN
     /\ _node_scores' = sc
     /\ slots' = BeginStart(done, i, nn.node, "get_proxy")
     /\ _ready_nodes' = nn.ready
     /\ node_index' = nn.index
  /\ UNCHANGED <<all_nodes, pretest, last_start, now, pool_steps, dvars>>

InitLock == DispatcherInit(0) /\ PoolInit(DistinctCatalog)

NextLock ==
  \/ \E ok \in [SlotIds -> BOOLEAN] : PoolStart(ok)
  \/ PretestBoot
  \/ \E i \in SlotIds : MonitorRestart(i)
  \/ \E j, i \in SlotIds : RetryStart(j, i)
  \/ \E i \in SlotIds, env \in {"ok", "exits"} : StartReturns(i, env, FALSE)
  \/ \E i \in SlotIds : SlotDies(i)
  \/ \E i \in SlotIds : GetProxy(i)
  \/ \E i \in SlotIds, res \in {"ok", "Timeout"} : RecordResult(i, res)

SpecLock == InitLock /\ [][NextLock]_vars

\* ---------------------------------------------------------------- the feedback of requests
\* The pool under production traffic: every slot starts, requests are sent
\* and answered, slots die and are restarted by the monitor or rotated after
\* a 403 (these starts succeed).
InitFeedback == DispatcherInit(0) /\ PoolInit(DistinctCatalog)

NextFeedback ==
  \/ PoolStart([i \in SlotIds |-> TRUE])
  \/ PretestBoot
  \/ FillBegin(TRUE)
  \/ TestNode("ok", 10)
  \/ FillAfterTests
  \/ PretestWake
  \/ \E i \in SlotIds : MonitorRestart(i)
  \/ \E i \in SlotIds : StartReturns(i, "ok", FALSE)
  \/ \E i \in SlotIds : SlotDies(i)
  \/ \E i \in SlotIds : GetProxy(i)
  \/ \E i \in SlotIds, res \in Results : RecordResult(i, res)

SpecFeedback == InitFeedback /\ [][NextFeedback]_vars

\* ---------------------------------------------------------------- claims on the pool
\* C15: the ready queue never holds two Nodes with the same key (host:port),
\* whatever the interleaving of fills, cleanups and _next_node pops.
C15_NoDuplicateKey ==
  \A i, j \in 1..Len(_ready_nodes) :
    i # j => _node_key(_ready_nodes[i]) # _node_key(_ready_nodes[j])

\* C16: at every instant no Node of the ready queue is bound to a production
\* slot whose tunnel process is alive, whatever the interleaving of the fill
\* (its awaited tests included) with the restarts of slots.
C16_ReadyNotOnLiveSlot ==
  \A i \in SlotIds :
    alive(slots, i) /\ slots[i].node # 0 => slots[i].node \notin Range(_ready_nodes)

\* C17: with a catalog holding at least _ready_target + (Nodes bound to live
\* slots) Nodes that pass the test, and nothing popped meanwhile, the ready
\* queue reaches _ready_target after finitely many fill cycles of the fairly
\* scheduled loop.
C17_ReadyReachesTarget ==
  (Running /\ Cardinality(Passing) >= _ready_target + Cardinality(Bound))
    ~> (Len(_ready_nodes) >= _ready_target)

\* C19: a call of ProxySlot.start that meets a failure (port occupied, binary
\* missing, process exiting within the startup wait, malformed Node) returns
\* False without raising and leaves the slot without a live process.
C19_FailureReturnsFalse ==
  [][(last_start' # last_start /\ StartFailure(last_start'))
       => /\ last_start'.ret = "False"
          /\ ~alive(slots', last_start'.slot)]_vars

\* C20: ProxySlot.start returns True only if the slot's process accepts TCP
\* connections on its local port after the startup wait.
C20_TrueOnlyIfListening ==
  [][(last_start' # last_start /\ last_start'.ret = "True")
       => slots'[last_start'.slot].listening]_vars

\* C18: at every instant no entry of the ready queue whose Node has three or
\* more consecutive recorded failures stands before an entry whose Node is
\* currently Verified (tier 1: verified and fresh).
C18_FailedNotBeforeVerified ==
  \A i, j \in 1..Len(_ready_nodes) :
    i < j => ~(/\ _node_scores[_node_key(_ready_nodes[i])].fail_count >= 3
               /\ _get_node_tier(_node_scores, _ready_nodes[j]) = 1)
\* C21: when ProxySlot.stop has returned, the tunnel process the slot held is
\* no longer alive and the slot's port is released: no slot is ever left with
\* a process that outlived its stop and still listens on the port.
C21_StopLeavesNoListener == \A i \in SlotIds : ~slots[i].orphan

\* C22: a malformed Node that enters testing is recorded as Failed (verified
\* false, failure count incremented) and is not appended to the ready queue:
\* every step that takes a malformed Node off the test batch leaves its score
\* tested, unverified, with one failure more, and the Node outside the queue.
C22_MalformedRecordedFailed ==
  [][(/\ pretest.pc \in {"t2", "t3"} /\ pretest.to_test # <<>>
      /\ pretest'.to_test = Tail(pretest.to_test)
      /\ ~all_nodes[Head(pretest.to_test)].wellformed)
     => (LET n == Head(pretest.to_test)
             k == _node_key(n)
         IN /\ _node_scores'[k].tested /\ ~_node_scores'[k].verified
            /\ (\/ _node_scores'[k].fail_count = _node_scores[k].fail_count + 1
                \/ _node_scores'[k].fail_count = MaxFailCount)
            /\ n \notin Range(_ready_nodes'))]_vars

\* C23: a slot start in progress never stalls dispatch: whenever a usable
\* slot exists, self.lock is not held by a caller suspended in slot.start, so
\* a concurrent get_proxy obtains the slot without waiting for that start.
C23_StartNeverStallsDispatch ==
  \A i \in SlotIds : alive(slots, i) /\ slots[i].starting = "no" => ~lock_held

\* C24: after ProxyPool.stop() has returned no slot has a live tunnel
\* process, whatever start was in flight when stop was called.
C24_NoProcessAfterStop ==
  pretest.pc = "stopped" => \A i \in SlotIds : ~alive(slots, i)

\* the healthy, unfrozen Exits a pick may choose from: all of them for a
\* generic request, those below the login quota for a login
Eligible(is_login) ==
  {e \in Range(exits) :
     /\ ex[e].healthy /\ ~is_frozen(ex, e)
     /\ is_login => count_recent_logins(ex, e) < MAX_LOGIN_PER_MIN}

\* the unthrottled ones of a set of Exits if there are any, else all
Preferred(es) ==
  IF \E e \in es : ex[e].rate_limit = 0 THEN {e \in es : ex[e].rate_limit = 0} ELSE es

\* C25: pick_api_exit returns one of the healthy unfrozen Exits, unthrottled
\* whenever one of them is, with the least active count of the set chosen;
\* pick_login_exit does the same among those below the login quota.
C25_PickPrefersUnthrottledLeastActive ==
  [][\A r \in Reqs :
       ((/\ req[r].pc = "idle" /\ req'[r].pc = "picked"
         /\ Eligible(req'[r].login) # {})
        => (/\ req'[r].exit \in Preferred(Eligible(req'[r].login))
            /\ (\A f \in Preferred(Eligible(req'[r].login)) :
                  ex[req'[r].exit].active <= ex[f].active)))]_vars

\* a login has gone to a throttled Exit although a healthy Exit is
\* unthrottled (that one is over the quota or frozen), while another request
\* is in its call
C25_Witness ==
  /\ \E r \in Reqs : /\ Picked(r) /\ req[r].login
                      /\ ex[req[r].exit].rate_limit > 0
                      /\ \E f \in Range(exits) : ex[f].healthy /\ ex[f].rate_limit = 0
  /\ \E q \in Reqs : req[q].pc = "call"

\* C26: when some Exit is healthy and unfrozen and every such Exit is at or
\* over the login quota, pick_login_exit returns the one of them with the
\* least trailing-60s login count and takes a reservation on it.
C26_AllOverQuotaLeastLogins ==
  [][\A r \in Reqs :
       ((/\ req[r].pc = "idle" /\ req'[r].pc = "picked" /\ req'[r].login
         /\ Eligible(FALSE) # {} /\ Eligible(TRUE) = {})
        => (/\ req'[r].exit \in Eligible(FALSE)
            /\ (\A f \in Eligible(FALSE) :
                  count_recent_logins(ex, req'[r].exit) <= count_recent_logins(ex, f))
            /\ ex'[req'[r].exit].inflight_logins
                 = ex[req'[r].exit].inflight_logins + 1))]_vars

\* the first login of the run has gone to a tunnel that was at the quota,
\* past the direct Exit, healthy and unfrozen but over the quota by one
C26_Witness ==
  \E r \in Reqs :
    /\ Picked(r) /\ req[r].login /\ ~is_direct(req[r].exit)
    /\ \A q \in Reqs \ {r} : req[q].pc = "idle"
    /\ count_recent_logins(ex, req[r].exit) = MAX_LOGIN_PER_MIN + 1
    /\ ex[_safe_direct].healthy /\ ~is_frozen(ex, _safe_direct)
    /\ count_recent_logins(ex, _safe_direct) = MAX_LOGIN_PER_MIN + 1

\* C27: a tunnel Exit whose last health probe failed is returned by no pick
\* until a probe of it succeeds, and a probe that succeeds puts it back among
\* the Exits the picks choose from, unless it is frozen.
C27_UnhealthyNeverPicked ==
  [][/\ (\A r \in Reqs :
           ((/\ req[r].pc = "idle" /\ req'[r].pc = "picked"
             /\ ~is_direct(req'[r].exit))
            => ex[req'[r].exit].healthy))
     /\ (\A i \in 2..Len(exits) :
           ((/\ exits' = exits /\ ~ex[exits[i]].healthy /\ ex'[exits[i]].healthy
             /\ ~is_frozen(ex, exits[i]))
            => i \in _get_healthy'))]_vars

\* a pick has passed over an unfrozen tunnel whose last probe failed, for an
\* Exit that has more calls in flight or stands later in the list
C27_Witness ==
  \E r \in Reqs, i \in 2..Len(exits) :
    /\ Picked(r) /\ req[r].exc = "none"
    /\ ~ex[exits[i]].healthy /\ ~is_frozen(ex, exits[i])
    /\ \/ ex[exits[i]].active < ex[req[r].exit].active
       \/ /\ ex[exits[i]].active = ex[req[r].exit].active
          /\ \E j \in 1..Len(exits) : j > i /\ exits[j] = req[r].exit

\* C28: no call begins through a frozen Exit: neither the call of forward
\* through the Exit it was given nor its retry through the direct Exit starts
\* while that Exit's freeze has not expired.
C28_NoCallThroughFrozen ==
  [][\A r \in Reqs :
       /\ ((req[r].pc # "call" /\ req'[r].pc = "call")
            => ~is_frozen(ex, req'[r].exit))
       /\ ((req[r].pc # "fallback" /\ req'[r].pc = "fallback")
            => ~is_frozen(ex, _safe_direct))]_vars

\* the requests of Exit e in the last 60 s
RequestsInWindow(e) == Len(SelectSeq(ex[e].req_timestamps, LAMBDA t : t > now - 60))

\* max(5, floor(0.9 v))
NinetyPercent(v) == IF (9 * v) \div 10 > 5 THEN (9 * v) \div 10 ELSE 5

\* C29: on a 403 or 429 an unthrottled Exit with more than 5 requests r in
\* the last 60 s gets the limit max(5, floor(0.9 r)); a throttled Exit at L
\* gets max(5, floor(0.9 L)) when that is smaller than L and keeps L
\* otherwise.  So a limit that is not 0 never grows, never returns to 0 and
\* is never lowered below 5.
C29_ThrottleArithmetic ==
  [][\A e \in Range(exits) :
       ex'[e] # ex[e] =>
         /\ ((ex[e].rate_limit = 0 /\ RequestsInWindow(e) > 5)
              => (ex'[e].rate_limit = NinetyPercent(RequestsInWindow(e))))
         /\ (ex[e].rate_limit > 0
              => (/\ ex'[e].rate_limit =
                       (IF NinetyPercent(ex[e].rate_limit) < ex[e].rate_limit
                        THEN NinetyPercent(ex[e].rate_limit) ELSE ex[e].rate_limit)
                  /\ ex'[e].rate_limit <= ex[e].rate_limit
                  /\ ex'[e].rate_limit # 0
                  /\ (ex'[e].rate_limit < ex[e].rate_limit
                       => ex'[e].rate_limit >= 5)))]_vars

\* two 403 on an Exit with 8 requests in the window have led to the limit 6
\* (none -> 7 -> 6, or 8 -> 7 -> 6)
C29_Witness ==
  /\ ex[DirectId].warn_403 = 2
  /\ ex[DirectId].rate_limit = 6
  /\ Len(ex[DirectId].req_timestamps) = 8

\* C30: for an Exit with rate_limit L > 0, at most L forwarded calls begin
\* through it within any 60-second window, also when several callers were
\* queued in wait_for_rate together.  Stated on the calls still in flight: of
\* the calls that wait_for_rate let through to a throttled Exit during the
\* last 60 seconds and that have not returned yet, there are at most L.
BegunInWindow(e) ==
  {r \in Reqs : /\ req[r].pc = "call" /\ req[r].exit = e
                /\ req[r].passed # NotPassed
                /\ req[r].passed > now - RATE_WINDOW}

C30_AtMostLimitCallsPerWindow ==
  \A e \in Range(exits) :
    (ex[e].rate_limit > 0 => Cardinality(BegunInWindow(e)) <= ex[e].rate_limit)

\* C31: the direct Exit's healthy flag is true in every reachable state (the
\* health check probes and updates tunnels only), so the direct Exit is
\* missing from the eligible set exactly when it is frozen.
C31_DirectAlwaysHealthy ==
  /\ ex[DirectId].healthy
  /\ exits[1] = DirectId
  /\ ((1 \in _get_healthy) <=> ~is_frozen(ex, DirectId))

\* a probe has marked a tunnel unhealthy, and the direct Exit is frozen
C31_Witness ==
  /\ \E i \in 2..Len(exits) : ~ex[exits[i]].healthy
  /\ is_frozen(ex, DirectId)
  /\ 1 \notin _get_healthy

\* a coroutine of the pool has called _next_node() for slot i and begun
\* slot.start with the node it got, the scores being as they were
StartBegins(i) ==
  /\ slots[i].starting = "no" /\ slots'[i].starting # "no"
  /\ _node_scores' = _node_scores

\* the catalog nodes no live slot holds
NotInUse == {n \in 1..Len(all_nodes) : _node_key(n) \notin in_use(slots)}

\* n is the first of the nodes of its tier that no live slot holds: in
\* catalog order, and for tier 1 in the order of the latencies
BestOfTier(n) ==
  \A m \in NotInUse :
    (_get_node_tier(_node_scores, m) = _get_node_tier(_node_scores, n)
     => IF _get_node_tier(_node_scores, n) = 1
        THEN \/ _node_scores[_node_key(n)].latency < _node_scores[_node_key(m)].latency
             \/ (/\ _node_scores[_node_key(n)].latency = _node_scores[_node_key(m)].latency
                 /\ n <= m)
        ELSE n <= m)

\* C32 as stated: when a slot needs a Node and the ready queue is empty,
\* _next_node returns the catalog Node under the round-robin cursor and
\* advances the cursor by one, whatever the Node's tier.
C32_EmptyQueueRoundRobin ==
  [][\A i \in SlotIds :
       ((StartBegins(i) /\ _ready_nodes = <<>>)
        => (/\ slots'[i].node = RoundRobin(node_index)
            /\ node_index' = NextIndex(node_index)))]_vars

\* C32, amended: when a slot needs a Node and the ready queue is empty,
\* _next_node() takes the Node under the cursor and advances the cursor only
\* if no score has been recorded yet or every catalog Node is held by a live
\* slot; otherwise it leaves the cursor alone and returns the first Node no
\* live slot holds of the best tier there is (Verified by ascending latency,
\* else Untested, else Failed, in catalog order).
C32_EmptyQueueTiered ==
  [][\A i \in SlotIds :
       ((StartBegins(i) /\ _ready_nodes = <<>>)
        => (IF (\A k \in DOMAIN _node_scores : ~_node_scores[k].tested) \/ NotInUse = {}
            THEN (/\ slots'[i].node = RoundRobin(node_index)
                  /\ node_index' = NextIndex(node_index))
            ELSE (/\ node_index' = node_index
                  /\ slots'[i].node \in NotInUse
                  /\ (\A m \in NotInUse :
                        _get_node_tier(_node_scores, slots'[i].node)
                          <= _get_node_tier(_node_scores, m))
                  /\ BestOfTier(slots'[i].node))))]_vars

\* no fill has begun, so the ready queue has been empty all along; the
\* monitor restarts a slot with an Untested Node that is neither the one
\* under the cursor nor the one before it
C32_Witness ==
  \E i \in SlotIds :
    /\ slots[i].starting = "monitor" /\ pool_steps.fills = 0 /\ _ready_nodes = <<>>
    /\ slots[i].node # RoundRobin(node_index)
    /\ slots[i].node # RoundRobin(node_index + Len(all_nodes) - 1)
    /\ _get_node_tier(_node_scores, slots[i].node) = 2

\* the shortage _pretest_loop reads, and the Nodes of tier t that are neither
\* queued nor bound to a live slot
Shortage == _ready_target - Len(_ready_nodes)
Unoccupied(t) ==
  {n \in 1..Len(all_nodes) :
     /\ _node_key(n) \notin ({_node_key(m) : m \in Range(_ready_nodes)} \cup in_use(slots))
     /\ _get_node_tier(_node_scores, n) = t}
Appended == Range(_ready_nodes') \ Range(_ready_nodes)

\* the batch of Failed Nodes a fill retests when it is still short of `short`
\* Nodes: Failed Nodes of `failed`, at most 2 x short, those with the fewest
\* failures, in ascending order of failure count
RetryBatch(batch, failed, short) ==
  /\ Range(batch) \subseteq failed
  /\ Len(batch) <= 2 * short
  /\ (Len(batch) < 2 * short => Range(batch) = failed)
  /\ (\A i, j \in 1..Len(batch) :
        (i < j => /\ batch[i] # batch[j]
                  /\ _node_scores[_node_key(batch[i])].fail_count
                       <= _node_scores[_node_key(batch[j])].fail_count))
  /\ (\A n \in Range(batch), m \in failed \ Range(batch) :
        _node_scores[_node_key(n)].fail_count <= _node_scores[_node_key(m)].fail_count)

\* C33: in one pass of _fill_ready_pool the fresh Verified Nodes go to the
\* ready queue without a test; Untested or stale Nodes are tested only if the
\* Verified ones did not cover the shortage, at most 3 x the remaining
\* shortage of them; Failed Nodes are retested only if the shortage remains
\* after that, at most 2 x the remaining shortage, in ascending order of
\* failure count.  A score changes only by the test of the Node at the head
\* of the batch.
C33_FillByTiers ==
  [][/\ ((pretest.pc = "top" /\ pretest'.pc # "top" /\ Shortage > 0)
         => (/\ _node_scores' = _node_scores
             /\ Appended \subseteq Unoccupied(1)
             /\ Len(_ready_nodes') = Len(_ready_nodes) + Cardinality(Appended)
             /\ Cardinality(Appended) = MinOf(Shortage, Cardinality(Unoccupied(1)))
             /\ (pretest'.pc \in {"t2", "t3"} => Cardinality(Appended) < Shortage)
             /\ (pretest'.pc = "t2"
                  => (/\ Range(pretest'.to_test) \subseteq Unoccupied(2)
                      /\ Len(pretest'.to_test) <= 3 * (Shortage - Cardinality(Appended))
                      /\ (Len(pretest'.to_test) < 3 * (Shortage - Cardinality(Appended))
                           => Range(pretest'.to_test) = Unoccupied(2))))
             /\ (pretest'.pc = "t3"
                  => (/\ Unoccupied(2) = {}
                      /\ RetryBatch(pretest'.to_test, Unoccupied(3),
                                     Shortage - Cardinality(Appended))))))
     /\ ((pretest.pc = "t2" /\ pretest'.pc = "t3")
         => (/\ Len(_ready_nodes') < _ready_target
             /\ RetryBatch(pretest'.to_test, Range(pretest.tier3),
                            _ready_target - Len(_ready_nodes'))))
     /\ (\A k \in DOMAIN _node_scores :
           (_node_scores'[k] # _node_scores[k]
            => (/\ pretest.pc \in {"t2", "t3"} /\ pretest.to_test # <<>>
                /\ k = _node_key(Head(pretest.to_test)))))]_vars

\* a fill has queued the one fresh Verified Node, has tested an Untested or
\* stale Node in vain and now retests two of three Failed Nodes, the one
\* later in the catalog first because it has failed less often
C33_Witness ==
  /\ pretest.pc = "t3" /\ Len(pretest.to_test) = 2
  /\ pretest.to_test[1] > pretest.to_test[2]
  /\ _node_scores[_node_key(pretest.to_test[1])].fail_count
       < _node_scores[_node_key(pretest.to_test[2])].fail_count
  /\ Len(_ready_nodes) = 1
  /\ \E n \in 1..Len(all_nodes) :
       /\ n \notin Range(pretest.to_test) /\ n \notin Range(_ready_nodes)
       /\ _get_node_tier(_node_scores, n) = 3 /\ _node_scores[_node_key(n)].fail_count = 2

\* the tier of catalog Node n after the step
TierAfter(n) ==
  IF ~_node_scores'[_node_key(n)].tested THEN 2
  ELSE IF now' - _node_scores'[_node_key(n)].last_test > _pretest_interval THEN 2
  ELSE IF _node_scores'[_node_key(n)].verified THEN 1 ELSE 3

\* C34: the tier of every catalog Node changes only along the state machine:
\* Untested until a result is recorded; a passed test makes it Verified with
\* failure counter 0; a Verified Node reverts to Untested when its last test
\* is older than the TTL; a failed test of an Untested Node makes it Failed;
\* a Failed Node stays Failed, its counter unchanged or raised by one (up to
\* the cap of the model), or becomes Verified.
C34_TierStateMachine ==
  [][\A n \in 1..Len(all_nodes) :
       (/\ (TierAfter(n) = 1 /\ _node_scores'[_node_key(n)] # _node_scores[_node_key(n)]
             => _node_scores'[_node_key(n)].fail_count = 0)
        /\ (_get_node_tier(_node_scores, n) = 2
             => (\/ TierAfter(n) = 2
                 \/ _node_scores'[_node_key(n)] # _node_scores[_node_key(n)]))
        /\ (_get_node_tier(_node_scores, n) = 1
             => (\/ TierAfter(n) = 1
                 \/ (/\ TierAfter(n) = 2
                     /\ _node_scores'[_node_key(n)] = _node_scores[_node_key(n)]
                     /\ now' - _node_scores[_node_key(n)].last_test > _pretest_interval)))
        /\ (_get_node_tier(_node_scores, n) = 3
             => (\/ TierAfter(n) = 1
                 \/ (/\ TierAfter(n) = 3
                     /\ _node_scores'[_node_key(n)].fail_count
                          \in {_node_scores[_node_key(n)].fail_count,
                               _node_scores[_node_key(n)].fail_count + 1,
                               MaxFailCount}))))]_vars

\* the score of catalog Node n is verified and younger than the TTL
FreshVerified(n) ==
  /\ _node_scores[_node_key(n)].tested /\ _node_scores[_node_key(n)].verified
  /\ now - _node_scores[_node_key(n)].last_test < _pretest_interval

\* C35: a Node handed out from the ready queue by _next_node has, at that
\* moment, a Verified score whose last test is younger than the TTL.
C35_PoppedEntryIsFresh ==
  [][\A i \in SlotIds :
       ((StartBegins(i) /\ Len(_ready_nodes') = Len(_ready_nodes) - 1)
        => FreshVerified(slots'[i].node))]_vars

\* C36: at most one start or stop operation runs on a production slot at any
\* time: the starts called by get_proxy, rotate_slot and _monitor_loop never
\* overlap on one slot.
C36_OneStartPerSlot ==
  \A i \in SlotIds : ~(slots[i].starting # "no" /\ slots[i].second # "no")

\* C37: no two production slots with a live tunnel process are bound to the
\* same Node key (host:port) at the same time, after startup and after any
\* sequence of restarts and rotations.
C37_LiveSlotsDistinctKeys ==
  \A i, j \in SlotIds :
    ((i # j /\ alive(slots, i) /\ alive(slots, j) /\ slots[i].node # 0 /\ slots[j].node # 0)
     => _node_key(slots[i].node) # _node_key(slots[j].node))

\* C38: get_proxy never returns a slot whose tunnel process is not alive or
\* whose block period has not yet elapsed: neither a slot it finds usable
\* (the request is then sent through it) nor a slot it has just restarted.
C38_HandedOutSlotUsable ==
  [][\A i \in SlotIds :
       (/\ (slots'[i].inflight = slots[i].inflight + 1
             => (alive(slots, i) /\ ~slots[i].blocked))
        /\ ((slots[i].starting = "get_proxy" /\ slots'[i].starting = "no"
              /\ alive(slots', i))
             => ~slots'[i].blocked))]_vars

\* C39: the ready queue never holds more than _ready_target Nodes, however
\* the fills (with their awaited node tests), the pops of _next_node and the
\* cleanup of the queue interleave; while a fill awaits its tests, the queue
\* and what the fill may still append stay within the target together
C39_ReadyQueueBounded ==
  /\ Len(_ready_nodes) <= _ready_target
  /\ (pretest.pc \in {"t2", "t3"}
       => Len(_ready_nodes) + (pretest.needed - pretest.filled) <= _ready_target)

\* a fill awaits its tests and a start has popped an entry of the queue since
\* the fill read the shortage, with passing nodes waiting to be appended
C39_Witness ==
  /\ pretest.pc \in {"t2", "t3"}
  /\ pretest.to_test = <<>>
  /\ pretest.results # <<>>
  /\ Len(_ready_nodes) + (pretest.needed - pretest.filled) < _ready_target

\* C40: with prefer_direct enabled, however the login handlers interleave,
\* the requests sent on the preferred direct path within any window of
\* _DIRECT_WINDOW seconds number at most direct_rate_limit
C40_DirectWithinLimit ==
  \A j \in 1..Len(direct_sent) :
    Cardinality({k \in 1..Len(direct_sent) :
                   direct_sent[k] <= direct_sent[j]
                   /\ direct_sent[j] - direct_sent[k] < _DIRECT_WINDOW})
      <= direct_cfg.direct_rate_limit
====
